---- MODULE Spec2Model ----
(***************************************************************************)
(* Model of the Cloud SDK markdown converter                               *)
(* (googlecloudsdk/core/document_renderers/render_document.py).            *)
(*                                                                         *)
(* A string is a sequence of one-character strings; Python's 0-based       *)
(* indexes are kept, so s[i] in the source is At(s, i) here.  The renderer *)
(* is the injected collaborator: every primitive the converter calls is    *)
(* appended to `calls`.  Python's None and '' are both falsy and the       *)
(* converter only ever tests _notes for truth, so both are << >> here.     *)
(***************************************************************************)
EXTENDS Integers, Sequences, FiniteSets, TLC

VARIABLES
  style,           \* the style argument RenderDocument is given
  error,           \* the message of the ValueError RenderDocument raised
  fin,             \* the input stream: its lines, without their newlines
  fin_newline,     \* whether the last line of fin ends with a newline
  arg_notes,       \* the notes argument RenderDocument is given
  runs,            \* how many conversions of fin the caller makes
  pos,             \* lines of fin read so far
  buf, depth, lists, example, next_example, paragraph, next_paragraph,
  notes, line,     \* the attributes of _MarkdownConverter
  calls,           \* the renderer primitives called, in order
  pc,              \* "new", "run", "done" (Run returned), "raised" (IndexError),
                   \* "ValueError" (RenderDocument raised it), "attr" (after a
                   \* direct call of _Attributes)
  last,            \* the classifier that consumed the last line
  bullet_run,      \* history: marker count of the previous line of a bullet
                   \* run that began with one marker at depth 0, 0 outside a
                   \* run, -1 in any other bullet run
  run,             \* conversions started so far
  prev_calls,      \* the calls of the previous conversion
  rets,            \* what the direct calls of _Attributes returned, in order
  retryer,         \* the attributes of the Retryer (retry.py)
  args,            \* the entry point called and its arguments
  rpc,             \* "none" (no Retryer in use), "idle", "loop" (in
                   \* RetryOnResult), "returned", "raised"
  clock,           \* time.time() in ms
  start_time_ms, retrial, \* the locals of RetryOnResult
  sleep_gen,       \* how many values sleep_gen has yielded
  events,          \* the calls of func, status_update_func and time.sleep,
                   \* in order
  outcome,         \* what the entry point returned or raised
  thr,             \* gce_cache.py: each thread's position in GetOnGCE, its
                   \* locals and what its calls did
  connected, mtime, file_lock, \* the attributes of _OnGCECache
  cache_file,      \* the file at GCECachePath()
  now,             \* time.time() in seconds
  last_write,      \* when this process last wrote the cache file
  printer,         \* csv_printer.py: the attributes of the printer
  csv_out,         \* what was written to the printer's _out, in order
  csv_pc           \* "none" (no printer in use), "ready", "TypeError"

\* the variables of the markdown converter
doc_vars == <<style, error, fin, fin_newline, arg_notes, runs, pos, buf, depth,
              lists, example, next_example, paragraph, next_paragraph, notes,
              line, calls, pc, last, bullet_run, run, prev_calls, rets>>

\* the variables of the Retryer
retry_vars == <<retryer, args, rpc, clock, start_time_ms, retrial, sleep_gen,
                events, outcome>>

\* the variables of _OnGCECache and its environment
gce_vars == <<thr, connected, mtime, file_lock, cache_file, now, last_write>>

\* the variables of the CSV printer
csv_vars == <<printer, csv_out, csv_pc>>

vars == <<doc_vars, retry_vars, gce_vars, csv_vars>>

----------------------------------------------------------------------------
(* Python string primitives.                                               *)

\* s[i] for 0 <= i < len(s)
At(s, i) == s[i + 1]

\* s[a:b] for a, b >= 0 (Python clamps both ends)
Slice(s, a, b) ==
  LET hi == IF b > Len(s) THEN Len(s) ELSE b
  IN  IF a >= hi THEN << >> ELSE SubSeq(s, a + 1, hi)

\* s[a:]
From(s, a) == Slice(s, a, Len(s))

RECURSIVE RStrip(_)
\* str.rstrip(): drops trailing whitespace
RStrip(s) ==
  IF s # << >> /\ s[Len(s)] = " " THEN RStrip(SubSeq(s, 1, Len(s) - 1)) ELSE s

RECURSIVE Find(_, _, _)
\* s.find(sub) searched from index k: lowest index of sub in s, or -1
Find(s, sub, k) ==
  IF k + Len(sub) > Len(s) THEN -1
  ELSE IF Slice(s, k, k + Len(sub)) = sub THEN k
  ELSE Find(s, sub, k + 1)

\* s.startswith(prefix)
StartsWith(s, prefix) == Slice(s, 0, Len(prefix)) = prefix

Lower == {"a", "b", "c", "d", "e", "f", "g", "h", "i", "j", "k", "l", "m",
          "n", "o", "p", "q", "r", "s", "t", "u", "v", "w", "x", "y", "z"}
Upper == {"A", "B", "C", "D", "E", "F", "G", "H", "I", "J", "K", "L", "M",
          "N", "O", "P", "Q", "R", "S", "T", "U", "V", "W", "X", "Y", "Z"}
Digit == {"0", "1", "2", "3", "4", "5", "6", "7", "8", "9"}

\* str.isalnum() of one character
IsAlnum(c) == c \in Lower \cup Upper \cup Digit

----------------------------------------------------------------------------
(* The renderer: each primitive called is logged as one record.  `none`    *)
(* says that the text argument was None or omitted.                        *)

Call(op, n, target, text, none) ==
  [op |-> op, n |-> n, target |-> target, text |-> text, none |-> none]

FillCall(text)        == Call("Fill", 0, << >>, text, FALSE)
HeadingCall(n, text)  == Call("Heading", n, << >>, text, FALSE)
SynopsisCall(text)    == Call("Synopsis", 0, << >>, text, FALSE)
ListCall(d)           == Call("List", d, << >>, << >>, TRUE)
ListItemCall(d, text) == Call("List", d, << >>, text, FALSE)
TableCall(text)       == Call("Table", 0, << >>, text, FALSE)
TableNoneCall         == Call("Table", 0, << >>, << >>, TRUE)
ExampleCall(text)     == Call("Example", 0, << >>, text, FALSE)
LineCall              == Call("Line", 0, << >>, << >>, TRUE)
FinishCall            == Call("Finish", 0, << >>, << >>, TRUE)
FontCall(kind)        == Call("Font", 0, << >>, <<kind>>, FALSE)
LinkCall(target, text) == Call("Link", 0, target, text, FALSE)

\* Renderer.Escape of the text renderer: nothing is special in plain text
Escape(text) == text

\* what Renderer.Font(kind) returns: one opaque inline marker
FontMark(kind) == "<" \o kind \o ">"

\* what Renderer.Link(target, text) returns: one opaque inline marker
LinkMark == "<link>"

\* the backquote character, which a TLA+ string cannot hold
BQ == "BACKQUOTE"

\* _MarkdownConverter._EMPHASIS
EMPHASIS(c) == CASE c = "*" -> "bold" [] c = "_" -> "italic" [] c = BQ -> "code"

----------------------------------------------------------------------------
(* Inline attributes.                                                      *)

\* v bound to the parameter of K: a local variable of the source
With(v, K(_)) == K(v)

RECURSIVE AnchorScanFirstClose(_, _, _, _)
\* a bracket scan that stops at the first ']' after the '[', nested or not
AnchorScanFirstClose(b, j, text_beg, nesting) ==
  IF j >= Len(b) THEN <<text_beg, 0>>
  ELSE IF At(b, j) = "["
       THEN AnchorScanFirstClose(b, j + 1,
                                 IF text_beg = 0 THEN j + 1 ELSE text_beg,
                                 nesting + 1)
  ELSE IF At(b, j) = "]"
       THEN IF nesting >= 1 THEN <<text_beg, j>> ELSE <<text_beg, 0>>
  ELSE AnchorScanFirstClose(b, j + 1, text_beg, nesting)

RECURSIVE AnchorScan(_, _, _, _)
\* the bracket scan of _Anchor from index j: <<text_beg, text_end>>
AnchorScan(b, j, text_beg, nesting) ==
  IF j >= Len(b) THEN <<text_beg, 0>>
  ELSE IF At(b, j) = "["
       THEN AnchorScan(b, j + 1, IF text_beg = 0 THEN j + 1 ELSE text_beg,
                       nesting + 1)
  ELSE IF At(b, j) = "]"
       THEN IF nesting - 1 = 0 THEN <<text_beg, j>>
            ELSE IF nesting - 1 < 0 THEN <<text_beg, 0>>
            ELSE AnchorScan(b, j + 1, text_beg, nesting - 1)
  ELSE AnchorScan(b, j + 1, text_beg, nesting)

NoAnchor == [j |-> 0, back |-> 0, target |-> << >>, text |-> << >>]

\* the scheme tests of _Anchor: <<back, target_beg>>, back = 0 for no scheme
AnchorScheme(b, i) ==
  IF i >= 3 /\ Slice(b, i - 3, i) = <<"f", "t", "p">> THEN <<3, i - 3>>
  ELSE IF i >= 4 /\ Slice(b, i - 4, i) = <<"h", "t", "t", "p">> THEN <<4, i - 4>>
  ELSE IF i >= 4 /\ Slice(b, i - 4, i) = <<"l", "i", "n", "k">> THEN <<4, i + 1>>
  ELSE IF i >= 5 /\ Slice(b, i - 5, i) = <<"h", "t", "t", "p", "s">>
       THEN <<5, i - 5>>
  ELSE IF i >= 6 /\ Slice(b, i - 6, i) = <<"m", "a", "i", "l", "t", "o">>
       THEN <<6, i - 6>>
  ELSE <<0, 0>>

\* _Anchor(buf, i), i the index of ':'
Anchor(b, i) ==
  With(AnchorScheme(b, i), LAMBDA scheme :
    IF scheme[1] = 0 THEN NoAnchor
    ELSE With(AnchorScan(b, i, 0, 0), LAMBDA scan :
           IF scan[2] = 0 THEN NoAnchor
           ELSE [j |-> scan[2] + 1, back |-> scheme[1],
                 target |-> Slice(b, scheme[2], scan[1] - 1),
                 text |-> Slice(b, scan[1], scan[2])]))

RECURSIVE AttrScanDoubledFont(_, _, _, _)
\* _Attributes' while loop with a doubled emphasis character turned into
\* one Font call
AttrScanDoubledFont(b, i, ret, cs) ==
  IF i >= Len(b) THEN [ret |-> ret, calls |-> cs]
  ELSE IF At(b, i) = ":" THEN
    With(Anchor(b, i), LAMBDA a :
      IF a.j # 0
      THEN AttrScanDoubledFont(b, a.j,
                               Append(Slice(ret, 0, Len(ret) - a.back), LinkMark),
                               Append(cs, LinkCall(a.target, a.text)))
      ELSE AttrScanDoubledFont(b, i + 1, Append(ret, ":"), cs))
  ELSE IF At(b, i) \in {"*", "_", BQ} THEN
    With(<<At(b, i),
           IF i # 0 THEN At(b, i - 1) ELSE " ",
           IF i < Len(b) - 1 THEN At(b, i + 1) ELSE " ">>, LAMBDA clr :
      IF clr[3] = clr[1]
      THEN AttrScanDoubledFont(b, i + 2, Append(ret, FontMark(EMPHASIS(clr[1]))),
                               Append(cs, FontCall(EMPHASIS(clr[1]))))
      ELSE IF (clr[1] = "*" /\ clr[2] \in {" ", "/"} /\ clr[3] \in {" ", ".", "/"})
              \/ (clr[2] \in {" ", "/"} /\ clr[3] \in {" ", "."})
           THEN AttrScanDoubledFont(b, i + 1, Append(ret, clr[1]), cs)
      ELSE IF IsAlnum(clr[2]) /\ IsAlnum(clr[3])
           THEN AttrScanDoubledFont(b, i + 1, Append(ret, clr[1]), cs)
      ELSE AttrScanDoubledFont(b, i + 1, Append(ret, FontMark(EMPHASIS(clr[1]))),
                               Append(cs, FontCall(EMPHASIS(clr[1])))))
  ELSE AttrScanDoubledFont(b, i + 1, Append(ret, At(b, i)), cs)

RECURSIVE AttrScanNoAlnum(_, _, _, _)
\* _Attributes' while loop with the test for alphanumeric neighbours removed
AttrScanNoAlnum(b, i, ret, cs) ==
  IF i >= Len(b) THEN [ret |-> ret, calls |-> cs]
  ELSE IF At(b, i) = ":" THEN
    With(Anchor(b, i), LAMBDA a :
      IF a.j # 0
      THEN AttrScanNoAlnum(b, a.j,
                           Append(Slice(ret, 0, Len(ret) - a.back), LinkMark),
                           Append(cs, LinkCall(a.target, a.text)))
      ELSE AttrScanNoAlnum(b, i + 1, Append(ret, ":"), cs))
  ELSE IF At(b, i) \in {"*", "_", BQ} THEN
    With(<<At(b, i),
           IF i # 0 THEN At(b, i - 1) ELSE " ",
           IF i < Len(b) - 1 THEN At(b, i + 1) ELSE " ">>, LAMBDA clr :
      IF clr[3] = clr[1]
      THEN AttrScanNoAlnum(b, i + 2, ret \o <<clr[1], clr[1]>>, cs)
      ELSE IF (clr[1] = "*" /\ clr[2] \in {" ", "/"} /\ clr[3] \in {" ", ".", "/"})
              \/ (clr[2] \in {" ", "/"} /\ clr[3] \in {" ", "."})
           THEN AttrScanNoAlnum(b, i + 1, Append(ret, clr[1]), cs)
      ELSE AttrScanNoAlnum(b, i + 1, Append(ret, FontMark(EMPHASIS(clr[1]))),
                           Append(cs, FontCall(EMPHASIS(clr[1])))))
  ELSE AttrScanNoAlnum(b, i + 1, Append(ret, At(b, i)), cs)

RECURSIVE AttrScan(_, _, _, _)
\* the while loop of _Attributes: [ret, calls] from index i on
AttrScan(b, i, ret, cs) ==
  IF i >= Len(b) THEN [ret |-> ret, calls |-> cs]
  ELSE IF At(b, i) = ":" THEN
    With(Anchor(b, i), LAMBDA a :
      IF a.j # 0
      THEN AttrScan(b, a.j, Append(Slice(ret, 0, Len(ret) - a.back), LinkMark),
                    Append(cs, LinkCall(a.target, a.text)))
      ELSE AttrScan(b, i + 1, Append(ret, ":"), cs))
  ELSE IF At(b, i) \in {"*", "_", BQ} THEN
    With(<<At(b, i),
           IF i # 0 THEN At(b, i - 1) ELSE " ",
           IF i < Len(b) - 1 THEN At(b, i + 1) ELSE " ">>, LAMBDA clr :
      IF clr[3] = clr[1] THEN AttrScan(b, i + 2, ret \o <<clr[1], clr[1]>>, cs)
      ELSE IF (clr[1] = "*" /\ clr[2] \in {" ", "/"} /\ clr[3] \in {" ", ".", "/"})
              \/ (clr[2] \in {" ", "/"} /\ clr[3] \in {" ", "."})
           THEN AttrScan(b, i + 1, Append(ret, clr[1]), cs)
      ELSE IF IsAlnum(clr[2]) /\ IsAlnum(clr[3])
           THEN AttrScan(b, i + 1, Append(ret, clr[1]), cs)
      ELSE AttrScan(b, i + 1, Append(ret, FontMark(EMPHASIS(clr[1]))),
                    Append(cs, FontCall(EMPHASIS(clr[1])))))
  ELSE AttrScan(b, i + 1, Append(ret, At(b, i)), cs)

\* _Attributes() without the statement that empties self._buf
AttributesKeepsBuf(m) ==
  IF m.buf = << >> THEN [m EXCEPT !.ret = << >>]
  ELSE With(AttrScan(Escape(m.buf), 0, << >>, m.calls), LAMBDA a :
         [m EXCEPT !.ret = a.ret, !.calls = a.calls])

\* _Attributes(): converts and drains m.buf; the result is in m.ret
Attributes(m) ==
  IF m.buf = << >> THEN [m EXCEPT !.ret = << >>]
  ELSE With(AttrScan(Escape(m.buf), 0, << >>, m.calls), LAMBDA a :
         [m EXCEPT !.buf = << >>, !.ret = a.ret, !.calls = a.calls])

\* one renderer call
Render(m, call) == [m EXCEPT !.calls = Append(@, call)]

\* self._renderer.<op>(self._Attributes()), op one of Fill, Synopsis, Table,
\* Example
RenderAttributes(m, op) ==
  With(Attributes(m), LAMBDA a : Render(a, Call(op, 0, << >>, a.ret, FALSE)))

\* _Example(line)
Example(m, text) ==
  IF text # << >> THEN RenderAttributes([m EXCEPT !.buf = text], "Example")
  ELSE m

\* _Fill()
Fill(m) == IF m.buf # << >> THEN RenderAttributes(m, "Fill") ELSE m

\* _ReadLine(): fin.readline(); eof stands for the '' readline returns at the
\* end of the stream, raw is the line without its newline
ReadLine(m) ==
  IF m.pos < Len(fin)
  THEN [m |-> [m EXCEPT !.pos = @ + 1], eof |-> FALSE, raw |-> fin[m.pos + 1]]
  ELSE [m |-> m, eof |-> TRUE, raw |-> << >>]

----------------------------------------------------------------------------
(* The list element state stack.  Python indexes a list from its end with  *)
(* a negative index and raises IndexError outside -len .. len-1.           *)

\* _ListElementState.__init__
ListElementState == [bullet |-> FALSE, ignore_line |-> 0, level |-> 0]

InRange(ls, d) == -Len(ls) <= d /\ d < Len(ls)

Idx(ls, d) == IF d >= 0 THEN d + 1 ELSE Len(ls) + d + 1

\* self._lists[d]
Elem(ls, d) == ls[Idx(ls, d)]

\* a classifier's result: the converter and the index it returns
Ret(m, i) == [m |-> m, i |-> i]

\* the classifier `by` consumed the line
Consumed(m, by) == [m |-> [m EXCEPT !.by = by], i |-> -1]

\* an IndexError leaves the classifier, and Run, at this point
Raise(m) == [m |-> [m EXCEPT !.err = TRUE], i |-> -1]

RECURSIVE PopTo(_, _, _)
\* while self._lists[self._depth].level > level: self._depth -= 1
\* (the depth reached, and whether the index left the stack)
PopTo(ls, d, level) ==
  IF ~InRange(ls, d) THEN [depth |-> d, err |-> TRUE]
  ELSE IF Elem(ls, d).level > level THEN PopTo(ls, d - 1, level)
  ELSE [depth |-> d, err |-> FALSE]

\* a push that goes down two levels at once
PushTwoLevels(m) ==
  [m EXCEPT !.depth = @ + 2,
            !.lists = @ \o <<ListElementState, ListElementState>>]

\* self._depth += 1, growing the stack on demand
Push(m) ==
  [m EXCEPT !.depth = @ + 1,
            !.lists = IF m.depth + 1 >= Len(@) THEN Append(@, ListElementState)
                      ELSE @]

\* the three assignments to the entry at the current depth
SetElem(m, bullet, ignore_line, level) ==
  [m EXCEPT !.lists[Idx(m.lists, m.depth)] =
              [bullet |-> bullet, ignore_line |-> ignore_line, level |-> level]]

RECURSIVE SkipSpaces(_, _)
\* while i < len(line) and line[i] == ' ': i += 1
SkipSpaces(l, i) ==
  IF i < Len(l) /\ At(l, i) = " " THEN SkipSpaces(l, i + 1) ELSE i

RECURSIVE SkipChar(_, _, _)
\* while i < len(line) and line[i] == c: i += 1
SkipChar(l, i, c) ==
  IF i < Len(l) /\ At(l, i) = c THEN SkipChar(l, i + 1, c) ELSE i

----------------------------------------------------------------------------
(* The line classifiers.                                                   *)

\* _ConvertBlankLine
ConvertBlankLine(m, i) ==
  IF m.line # << >> THEN Ret(m, i)
  ELSE
    With(Fill(m), LAMBDA f :
      IF ~InRange(f.lists, f.depth) THEN Raise(f)
      ELSE
        With(IF Elem(f.lists, f.depth).bullet
             THEN [Render(f, ListCall(0)) EXCEPT !.depth = @ - 1]
             ELSE f, LAMBDA b :
          IF ~InRange(b.lists, b.depth) THEN Raise(b)
          ELSE
            With(IF Elem(b.lists, b.depth).ignore_line # 0
                 THEN [b EXCEPT !.lists[Idx(b.lists, b.depth)].ignore_line = @ - 1]
                 ELSE b, LAMBDA c :
              Consumed(IF c.depth = 0 \/ Elem(c.lists, c.depth).ignore_line = 0
                       THEN Render(c, LineCall)
                       ELSE c,
                       "BlankLine"))))

\* _ConvertParagraph that does not set _next_paragraph
ConvertParagraphNoLatch(m, i) ==
  IF Len(m.line) # 1 \/ At(m.line, 0) # "+" THEN Ret(m, i)
  ELSE Consumed(Render(Fill(m), LineCall), "Paragraph")

\* _ConvertParagraph
ConvertParagraph(m, i) ==
  IF Len(m.line) # 1 \/ At(m.line, 0) # "+" THEN Ret(m, i)
  ELSE Consumed([Render(Fill(m), LineCall) EXCEPT !.next_paragraph = TRUE],
                "Paragraph")

RECURSIVE HeadingRun(_, _)
\* while i < len(line) and line[i] == '=' and line[-(i + 1)] == '=': i += 1
HeadingRun(l, i) ==
  IF i < Len(l) /\ At(l, i) = "=" /\ At(l, Len(l) - (i + 1)) = "="
  THEN HeadingRun(l, i + 1)
  ELSE i

NAME     == <<"N", "A", "M", "E">>
SYNOPSIS == <<"S", "Y", "N", "O", "P", "S", "I", "S">>
NOTES    == <<"N", "O", "T", "E", "S">>

\* len(buf) > 2 and buf[-1] == ':' and buf[-2] == ':'
IsOldStyle(s) ==
  Len(s) > 2 /\ At(s, Len(s) - 1) = ":" /\ At(s, Len(s) - 2) = ":"

RECURSIVE SynopsisLoopUntilBlank(_, _, _)
\* a loop that goes on to the next blank line, one Synopsis per line
SynopsisLoopUntilBlank(m, old_style, heading) ==
  With(ReadLine(m), LAMBDA rd :
    IF rd.eof \/ RStrip(rd.raw) = << >> THEN [rd.m EXCEPT !.buf = << >>]
    ELSE SynopsisLoopUntilBlank(
           RenderAttributes([rd.m EXCEPT !.buf = RStrip(rd.raw)], "Synopsis"),
           old_style, heading))

RECURSIVE SynopsisLoop(_, _, _)
\* the while True loop of _ConvertHeading under a NAME or SYNOPSIS heading
SynopsisLoop(m, old_style, heading) ==
  With(ReadLine(m), LAMBDA rd :
    IF rd.eof THEN [m EXCEPT !.buf = << >>]
    ELSE
      With(RStrip(rd.raw), LAMBDA s :
        With(<<IF IsOldStyle(s) THEN Slice(s, 0, Len(s) - 2) ELSE s,
               old_style \/ IsOldStyle(s)>>, LAMBDA t :
          IF t[1] # << >>
          THEN With(RenderAttributes([rd.m EXCEPT !.buf = t[1]], "Synopsis"),
                    LAMBDA syn :
                 IF t[2] /\ heading = SYNOPSIS
                 THEN ReadLine(ReadLine(syn).m).m
                 ELSE syn)
          ELSE SynopsisLoop([rd.m EXCEPT !.buf = t[1]], t[2], heading))))

\* _ConvertHeading
ConvertHeading(m, i) ==
  With(HeadingRun(m.line, i), LAMBDA k :
    IF k <= 0 THEN Ret(m, i)
    ELSE IF k >= Len(m.line) THEN Raise(m)
    ELSE IF At(m.line, k) # " " \/ At(m.line, Len(m.line) - (k + 1)) # " "
         THEN Ret(m, i)
    ELSE
      With(Attributes([Fill(m) EXCEPT
                         !.buf = Slice(m.line, k + 1, Len(m.line) - (k + 1))]),
           LAMBDA a :
        With([Render(a, HeadingCall(k, a.ret)) EXCEPT !.depth = 0], LAMBDA h :
          IF a.ret \in {NAME, SYNOPSIS}
          THEN Consumed(SynopsisLoop(h, FALSE, a.ret), "Heading")
          ELSE IF h.notes # << >> /\ a.ret = NOTES
               THEN Consumed([h EXCEPT !.buf = h.notes, !.notes = << >>],
                             "Heading")
          ELSE Consumed(h, "Heading"))))

\* the literal format="csv"
CsvFormat == <<"f", "o", "r", "m", "a", "t", "=", "\"", "c", "s", "v", "\"">>

\* the table delimiter prefix |====
TableDelim == <<"|", "=", "=", "=", "=">>

RECURSIVE TableLoop(_, _)
\* the while True loop of _ConvertTable
TableLoop(m, delim) ==
  With(ReadLine(m), LAMBDA rd :
    IF rd.eof THEN [m EXCEPT !.buf = << >>]
    ELSE
      With([rd.m EXCEPT !.buf = RStrip(rd.raw)], LAMBDA s :
        IF StartsWith(s.buf, TableDelim)
        THEN IF delim - 1 <= 0 THEN s ELSE TableLoop(s, delim - 1)
        ELSE TableLoop(RenderAttributes(s, "Table"), delim)))

\* the delimiter countdown of _ConvertTable starts here
TableDelimCount == 2

\* _ConvertTable with the countdown started at one delimiter
ConvertTableOneDelimiter(m, i) ==
  IF At(m.line, 0) # "[" \/ At(m.line, Len(m.line) - 1) # "]"
     \/ Find(m.line, CsvFormat, 0) < 0
  THEN Ret(m, i)
  ELSE Consumed(Render([TableLoop(Render(m, TableCall(m.line)),
                                  TableDelimCount - 1)
                          EXCEPT !.buf = << >>],
                       TableNoneCall),
                "Table")

\* _ConvertTable
ConvertTable(m, i) ==
  IF At(m.line, 0) # "[" \/ At(m.line, Len(m.line) - 1) # "]"
     \/ Find(m.line, CsvFormat, 0) < 0
  THEN Ret(m, i)
  ELSE Consumed(Render([TableLoop(Render(m, TableCall(m.line)), TableDelimCount)
                          EXCEPT !.buf = << >>],
                       TableNoneCall),
                "Table")

\* self._renderer.List(self._depth, self._Attributes())
RenderListItem(m) ==
  With(Attributes(m), LAMBDA a : Render(a, ListItemCall(a.depth, a.ret)))

\* a definition item that sets no blank line counter
DefinitionListItemNoCounter(d, j, i, level) ==
  With(RenderListItem([Fill(SetElem(d, FALSE, 0, level))
                         EXCEPT !.buf = Slice(d.line, 0, j)]), LAMBDA r :
    With(SkipSpaces(d.line, i), LAMBDA i3 :
      Consumed(IF i3 < Len(d.line)
               THEN [r EXCEPT !.buf = @ \o From(d.line, i3)]
               ELSE r,
               "DefinitionList")))

\* _ConvertDefinitionList from the depth adjustment on: j the index of the
\* colons, i the index after them, d the converter at its new depth
DefinitionListItem(d, j, i, level) ==
  With(RenderListItem([Fill(SetElem(d, FALSE, 2, level))
                         EXCEPT !.buf = Slice(d.line, 0, j)]), LAMBDA r :
    With(SkipSpaces(d.line, i), LAMBDA i3 :
      Consumed(IF i3 < Len(d.line)
               THEN [r EXCEPT !.buf = @ \o From(d.line, i3)]
               ELSE r,
               "DefinitionList")))

\* _ConvertDefinitionList
ConvertDefinitionList(m, i) ==
  With(SkipSpaces(m.line, i), LAMBDA i1 :
    IF i1 # 0 THEN Ret(m, i1)
    ELSE
      With(Find(m.line, <<":", ":">>, 0), LAMBDA j :
        IF j < 0 THEN Ret(m, i1)
        ELSE
          With(SkipChar(m.line, j + 2, ":"), LAMBDA i2 :
            With(1 + (i2 - (j + 2)), LAMBDA level :
              IF ~InRange(m.lists, m.depth) THEN Raise(m)
              ELSE IF Elem(m.lists, m.depth).bullet
                      \/ Elem(m.lists, m.depth).level < level
                   THEN DefinitionListItem(Push(m), j, i2, level)
              ELSE
                With(PopTo(m.lists, m.depth, level), LAMBDA pop :
                  IF pop.err THEN Raise([m EXCEPT !.depth = pop.depth])
                  ELSE DefinitionListItem([m EXCEPT !.depth = pop.depth],
                                          j, i2, level))))))

\* _ConvertBulletList from the depth adjustment on: j the index after the
\* indicators, d the converter at its new depth
BulletListItem(d, j, level) ==
  With(SetElem(d, TRUE, 0, level), LAMBDA e :
    With(Render(Fill(e), ListCall(e.depth)), LAMBDA r :
      Consumed([r EXCEPT !.buf = @ \o From(d.line, SkipSpaces(d.line, j))],
               "BulletList")))

\* _ConvertBulletList
ConvertBulletList(m, i) ==
  IF At(m.line, i) \notin {"-", "*"} THEN Ret(m, i)
  ELSE
    With(SkipChar(m.line, i, At(m.line, i)), LAMBDA j :
      With((i \div 2) + (j - i), LAMBDA level :
        IF j >= Len(m.line) \/ At(m.line, j) # " " THEN Ret(m, i)
        ELSE IF ~InRange(m.lists, m.depth) THEN Raise(m)
        ELSE IF Elem(m.lists, m.depth).bullet
                /\ Elem(m.lists, m.depth).level >= level
             THEN With(PopTo(m.lists, m.depth, level), LAMBDA pop :
                    IF pop.err THEN Raise([m EXCEPT !.depth = pop.depth])
                    ELSE BulletListItem([m EXCEPT !.depth = pop.depth], j, level))
        ELSE BulletListItem(Push(m), j, level)))

\* _ConvertExample that keeps the margin of the first line of the run
ConvertExampleFirstMargin(m, i) ==
  IF i = 0 \/ (m.depth # 0 /\ ~(m.example # 0 \/ m.paragraph)) THEN Ret(m, i)
  ELSE
    With(Fill(m), LAMBDA f :
      With(IF f.example = 0 THEN i ELSE f.example, LAMBDA x :
        Consumed([Example([f EXCEPT !.example = x], From(m.line, x))
                    EXCEPT !.next_example = x],
                 "Example")))

\* _ConvertExample
ConvertExample(m, i) ==
  IF i = 0 \/ (m.depth # 0 /\ ~(m.example # 0 \/ m.paragraph)) THEN Ret(m, i)
  ELSE
    With(Fill(m), LAMBDA f :
      With(IF f.example = 0 \/ f.example > i THEN i ELSE f.example, LAMBDA x :
        Consumed([Example([f EXCEPT !.example = x], From(m.line, x))
                    EXCEPT !.next_example = x],
                 "Example")))

\* _ConvertEndOfList that counts down to zero
ConvertEndOfListCountsDown(m, i) ==
  IF i # 0 \/ m.depth = 0 THEN Ret(m, i)
  ELSE IF ~InRange(m.lists, m.depth) THEN Raise(m)
  ELSE
    With(IF Elem(m.lists, m.depth).ignore_line > 0
         THEN [m EXCEPT !.lists[Idx(m.lists, m.depth)].ignore_line = @ - 1]
         ELSE m, LAMBDA c :
      IF Elem(c.lists, c.depth).ignore_line = 0
      THEN Ret([Render(Fill(c), ListCall(0)) EXCEPT !.depth = 0], i)
      ELSE Ret(c, i))

\* _ConvertEndOfList
ConvertEndOfList(m, i) ==
  IF i # 0 \/ m.depth = 0 THEN Ret(m, i)
  ELSE IF ~InRange(m.lists, m.depth) THEN Raise(m)
  ELSE
    With(IF Elem(m.lists, m.depth).ignore_line > 1
         THEN [m EXCEPT !.lists[Idx(m.lists, m.depth)].ignore_line = @ - 1]
         ELSE m, LAMBDA c :
      IF Elem(c.lists, c.depth).ignore_line = 0
      THEN Ret([Render(Fill(c), ListCall(0)) EXCEPT !.depth = 0], i)
      ELSE Ret(c, i))

\* _ConvertRemainder without the joining space
ConvertRemainderNoSpace(m, i) ==
  Consumed([m EXCEPT !.buf = @ \o From(m.line, i)], "Remainder")

\* _ConvertRemainder
ConvertRemainder(m, i) ==
  Consumed([m EXCEPT !.buf = @ \o <<" ">> \o From(m.line, i)], "Remainder")

----------------------------------------------------------------------------
(* The converter object and the run loop.                                  *)

\* __init__ that leaves _depth as the previous conversion left it
MarkdownConverterInitKeepsDepth(n) ==
  [buf |-> << >>, notes |-> n, lists |-> <<ListElementState>>, depth |-> depth,
   example |-> 0, next_example |-> 0, paragraph |-> FALSE,
   next_paragraph |-> FALSE, line |-> << >>]

\* _MarkdownConverter.__init__(style_renderer, fin, notes)
MarkdownConverterInit(n) ==
  [buf |-> << >>, notes |-> n, lists |-> <<ListElementState>>, depth |-> 0,
   example |-> 0, next_example |-> 0, paragraph |-> FALSE,
   next_paragraph |-> FALSE, line |-> << >>]

\* the converter, the stream position and the renderer log as one value
Self ==
  [buf |-> buf, notes |-> notes, lists |-> lists, depth |-> depth,
   example |-> example, next_example |-> next_example, paragraph |-> paragraph,
   next_paragraph |-> next_paragraph, line |-> line, pos |-> pos,
   calls |-> calls, err |-> FALSE, by |-> "", ret |-> << >>]

\* a latch that does not clear _next_example
LatchKeepsExample(m) ==
  [m EXCEPT !.example = m.next_example,
            !.paragraph = m.next_paragraph, !.next_paragraph = FALSE]

\* the first four statements of the loop body of Run
Latch(m) ==
  [m EXCEPT !.example = m.next_example, !.next_example = 0,
            !.paragraph = m.next_paragraph, !.next_paragraph = FALSE]

\* how many times in a row _Attributes is called directly
MaxAttributesCalls == 2

\* the list the for loop of Run iterates over
Classifiers ==
  <<"_ConvertBlankLine", "_ConvertParagraph", "_ConvertHeading",
    "_ConvertTable", "_ConvertDefinitionList", "_ConvertBulletList",
    "_ConvertExample", "_ConvertEndOfList", "_ConvertRemainder">>

\* detect_and_convert(i)
DetectAndConvert(name, m, i) ==
  CASE name = "_ConvertBlankLine"      -> ConvertBlankLine(m, i)
    [] name = "_ConvertParagraph"      -> ConvertParagraph(m, i)
    [] name = "_ConvertHeading"        -> ConvertHeading(m, i)
    [] name = "_ConvertTable"          -> ConvertTable(m, i)
    [] name = "_ConvertDefinitionList" -> ConvertDefinitionList(m, i)
    [] name = "_ConvertBulletList"     -> ConvertBulletList(m, i)
    [] name = "_ConvertExample"        -> ConvertExample(m, i)
    [] name = "_ConvertEndOfList"      -> ConvertEndOfList(m, i)
    [] name = "_ConvertRemainder"      -> ConvertRemainder(m, i)

RECURSIVE Detect(_, _)
\* the for loop of Run from the k-th classifier on: the classifiers in order
\* until one returns i < 0
Detect(r, k) ==
  IF k > Len(Classifiers) \/ r.i < 0 THEN r
  ELSE Detect(DetectAndConvert(Classifiers[k], r.m, r.i), k + 1)

\* the body of the loop of Run after the line is read
Chain(m) == Detect(Ret(m, 0), 1).m

\* _Finish that appends the notes without the NOTES heading
FinishWithoutHeading(m) ==
  With(Fill(m), LAMBDA f :
    Render(IF f.notes # << >> THEN Fill([f EXCEPT !.buf = @ \o f.notes]) ELSE f,
           FinishCall))

\* _Finish that leaves the appended notes in the buffer
FinishNotesUnfilled(m) ==
  With(Fill(m), LAMBDA f :
    Render(IF f.notes # << >>
           THEN [Render(Render(f, LineCall), HeadingCall(2, NOTES))
                   EXCEPT !.buf = @ \o f.notes]
           ELSE f,
           FinishCall))

\* _Finish()
Finish(m) ==
  With(Fill(m), LAMBDA f :
    Render(IF f.notes # << >>
           THEN Fill([Render(Render(f, LineCall), HeadingCall(2, NOTES))
                        EXCEPT !.buf = @ \o f.notes])
           ELSE f,
           FinishCall))

\* the number of markers of an un-indented bullet line, 0 for any other line
BulletMarkers(l) ==
  IF l # << >> /\ l[1] \in {"-", "*"}
     /\ SkipChar(l, 0, l[1]) < Len(l) /\ At(l, SkipChar(l, 0, l[1])) = " "
  THEN SkipChar(l, 0, l[1])
  ELSE 0

\* the attributes, the stream position and the renderer log after a step
Store(m) ==
  /\ pos' = m.pos
  /\ buf' = m.buf
  /\ depth' = m.depth
  /\ lists' = m.lists
  /\ example' = m.example
  /\ next_example' = m.next_example
  /\ paragraph' = m.paragraph
  /\ next_paragraph' = m.next_paragraph
  /\ notes' = m.notes
  /\ line' = m.line
  /\ calls' = m.calls

\* the history of bullet runs after a line with k markers (0: no bullet line)
NextBulletRun(k) ==
  IF k = 0 THEN 0
  ELSE IF bullet_run = 0 THEN (IF depth = 0 /\ k = 1 THEN 1 ELSE -1)
  ELSE IF bullet_run > 0 /\ k <= bullet_run + 1 THEN k
  ELSE -1

\* the state after the classifiers have run on a line
AfterLine(m) ==
  /\ Store(m)
  /\ pc' = IF m.err THEN "raised" ELSE "run"
  /\ last' = m.by
  /\ bullet_run' = NextBulletRun(IF m.by = "BulletList" THEN BulletMarkers(m.line)
                                 ELSE 0)

\* the line just read, right-trimmed, as self._line
TakeLine(rd) == [rd.m EXCEPT !.line = RStrip(rd.raw)]

\* the keys of _STYLES
STYLES == {"devsite", "html", "man", "markdown", "text"}

\* RenderDocument up to the call of Run: a renderer of the style and a new
\* converter on the start of the stream
Construct ==
  /\ pc \in {"new", "done", "raised"}
  /\ run < runs
  /\ style \in STYLES
  /\ Store(MarkdownConverterInit(arg_notes) @@ [pos |-> 0, calls |-> << >>])
  /\ pc' = "run"
  /\ last' = ""
  /\ bullet_run' = 0
  /\ run' = run + 1
  /\ prev_calls' = calls
  /\ UNCHANGED <<retry_vars, gce_vars, csv_vars>>
  /\ UNCHANGED <<rets, style, error, fin, fin_newline, arg_notes, runs>>

\* one iteration of the loop of Run that reads a line
RunLine ==
  /\ pc = "run"
  /\ style # "markdown"
  /\ pos < Len(fin)
  /\ AfterLine(Chain(TakeLine(ReadLine(Latch(Self)))))
  /\ UNCHANGED <<retry_vars, gce_vars, csv_vars>>
  /\ UNCHANGED <<rets, style, error, fin, fin_newline, arg_notes, runs, run,
                 prev_calls>>

\* the iteration of the loop of Run that finds the end of the stream
RunFinish ==
  /\ pc = "run"
  /\ style # "markdown"
  /\ pos >= Len(fin)
  /\ Store(Finish([Latch(Self) EXCEPT !.line = << >>]))
  /\ pc' = "done"
  /\ last' = "Finish"
  /\ bullet_run' = 0
  /\ UNCHANGED <<retry_vars, gce_vars, csv_vars>>
  /\ UNCHANGED <<rets, style, error, fin, fin_newline, arg_notes, runs, run,
                 prev_calls>>

Next == Construct \/ RunLine \/ RunFinish

\* a call of _Attributes() on the converter as the last line read left it
AttributesCall ==
  /\ pc \in {"run", "attr"}
  /\ style # "markdown"
  /\ Len(rets) < MaxAttributesCalls
  /\ Store(Attributes(Self))
  /\ rets' = Append(rets, Attributes(Self).ret)
  /\ pc' = "attr"
  /\ UNCHANGED <<retry_vars, gce_vars, csv_vars>>
  /\ UNCHANGED <<style, error, fin, fin_newline, arg_notes, runs, run,
                 prev_calls, last, bullet_run>>

NextAttributes == Construct \/ RunLine \/ AttributesCall

----------------------------------------------------------------------------
(* RenderDocument with an unknown style, and with the markdown renderer.   *)

\* a ValueError message that leaves the style out
UnknownStyleMessageWithoutStyle(st) == <<"Unknown markdown document style.">>

\* 'Unknown markdown document style [{style}].'.format(style=style), as the
\* pieces of the text
UnknownStyleMessage(st) == <<"Unknown markdown document style [", st, "].">>

\* RenderDocument raising ValueError for a style that is no key of _STYLES
UnknownStyle ==
  /\ pc = "new"
  /\ run < runs
  /\ style \notin STYLES
  /\ pc' = "ValueError"
  /\ error' = UnknownStyleMessage(style)
  /\ run' = run + 1
  /\ UNCHANGED <<retry_vars, gce_vars, csv_vars>>
  /\ UNCHANGED <<rets, style, fin, fin_newline, arg_notes, runs, pos, buf, depth,
                 lists, example, next_example, paragraph, next_paragraph,
                 notes, line, calls, last, bullet_run, prev_calls>>

\* the k-th line of the stream as fin.readline() returns it
RawLine(k) ==
  fin[k] \o (IF k < Len(fin) \/ fin_newline THEN <<"\n">> ELSE << >>)

RECURSIVE RawFrom(_)
\* fin.read() with k - 1 lines already read
RawFrom(k) == IF k > Len(fin) THEN << >> ELSE RawLine(k) \o RawFrom(k + 1)

WriteCall(text) == Call("Write", 0, << >>, text, FALSE)

\* self._edit
Edit == arg_notes # << >>

\* the literal '== NOTES ==\n'
NotesLine == <<"=", "=", " ", "N", "O", "T", "E", "S", " ", "=", "=", "\n">>

\* the literal '\n\n== NOTES ==\n\n'
NotesSection ==
  <<"\n", "\n", "=", "=", " ", "N", "O", "T", "E", "S", " ", "=", "=", "\n", "\n">>

\* _ConvertMarkdownToMarkdown without notes: the whole stream in one Write
MarkdownRead ==
  /\ pc = "run"
  /\ style = "markdown"
  /\ ~Edit
  /\ calls' = Append(calls, WriteCall(RawFrom(pos + 1)))
  /\ pos' = Len(fin)
  /\ pc' = "done"
  /\ UNCHANGED <<retry_vars, gce_vars, csv_vars>>
  /\ UNCHANGED <<rets, style, error, fin, fin_newline, arg_notes, runs, buf, depth,
                 lists, example, next_example, paragraph, next_paragraph,
                 notes, line, last, bullet_run, run, prev_calls>>

\* one iteration of the loop of _ConvertMarkdownToMarkdown that reads a line
MarkdownLine ==
  /\ pc = "run"
  /\ style = "markdown"
  /\ Edit
  /\ pos < Len(fin)
  /\ pos' = pos + 1
  /\ IF notes # << >> /\ RawLine(pos + 1) = NotesLine
     THEN /\ calls' = calls \o <<WriteCall(RawLine(pos + 1)),
                                 WriteCall(<<"\n">> \o notes \o <<"\n">>)>>
          /\ notes' = << >>
     ELSE /\ calls' = Append(calls, WriteCall(RawLine(pos + 1)))
          /\ notes' = notes
  /\ UNCHANGED <<retry_vars, gce_vars, csv_vars>>
  /\ UNCHANGED <<rets, style, error, fin, fin_newline, arg_notes, runs, buf, depth,
                 lists, example, next_example, paragraph, next_paragraph,
                 line, pc, last, bullet_run, run, prev_calls>>

\* the end of the stream in _ConvertMarkdownToMarkdown
MarkdownEnd ==
  /\ pc = "run"
  /\ style = "markdown"
  /\ Edit
  /\ pos >= Len(fin)
  /\ calls' = IF notes # << >>
              THEN Append(calls, WriteCall(NotesSection \o notes \o <<"\n">>))
              ELSE calls
  /\ pc' = "done"
  /\ UNCHANGED <<retry_vars, gce_vars, csv_vars>>
  /\ UNCHANGED <<rets, style, error, fin, fin_newline, arg_notes, runs, pos, buf,
                 depth, lists, example, next_example, paragraph,
                 next_paragraph, notes, line, last, bullet_run, run,
                 prev_calls>>

NextStyle ==
  \/ Construct
  \/ RunLine
  \/ RunFinish
  \/ UnknownStyle
  \/ MarkdownRead
  \/ MarkdownLine
  \/ MarkdownEnd

----------------------------------------------------------------------------
(* The Retryer (core/util/retry.py).  Times are whole milliseconds.  An    *)
(* argument that is None or a number is -1 for None; a multiplier, jitter  *)
(* or ceiling that the code only tests for truth is 0 for None.            *)

\* None, for max_retrials and max_wait_ms and sleep_ms
None == -1

\* what func yields on a trial.  RetryOnResult: the value func returns (exc
\* is "None").  RetryOnException: the pair TryFunc returns, (value, None)
\* or (None, exc_info)
Result(value, exc) == [value |-> value, exc |-> exc]

NoResult == Result("None", "None")

\* RetryException.__init__, for WaitException and MaxRetrialsException
RetryException(type, message, last_result, last_retrial, time_passed_ms, time_to_wait_ms) ==
  [type |-> type, message |-> message, last_result |-> last_result,
   last_retrial |-> last_retrial, time_passed_ms |-> time_passed_ms,
   time_to_wait_ms |-> time_to_wait_ms]

\* the exception e that func raised, raised again by DecoratedFunction
FuncException(e) == RetryException(e, "", NoResult, 0, 0, 0)

NoException == FuncException("None")

\* one call of func, status_update_func or time.sleep
Event(ev, at, k, time_passed_ms, time_to_wait_ms, x) ==
  [ev |-> ev, at |-> at, retrial |-> k, time_passed_ms |-> time_passed_ms,
   time_to_wait_ms |-> time_to_wait_ms, result |-> x]

\* should_retry(result): the one RetryOnResult builds from should_retry_if
\* (a callable, or a value to compare with), and the lambda RetryOnException
\* passes to it
ShouldRetry(x) ==
  IF args.entry = "RetryOnResult" THEN x.value \in args.retry_on
  ELSE x.exc # "None" /\ (~args.retry_given \/ x.exc \in args.retry_on)

\* sleep_gen.next() raises StopIteration
SleepExhausted ==
  args.sleep_ms.iterable /\ sleep_gen >= Len(args.sleep_ms.seq)

\* sleep_gen.next()
NextSleep ==
  IF args.sleep_ms.iterable THEN args.sleep_ms.seq[sleep_gen + 1]
  ELSE args.sleep_ms.ms

RECURSIVE Pow(_, _)
\* b ** e
Pow(b, e) == IF e = 0 THEN 1 ELSE b * Pow(b, e - 1)

\* min(a, b)
Min(a, b) == IF a <= b THEN a ELSE b

\* _GetTimeToWait(last_retrial, sleep_ms); jitter is what
\* random.random() * jitter_ms comes to
GetTimeToWait(last_retrial, sleep_ms, jitter) ==
  IF sleep_ms = None \/ sleep_ms = 0 THEN 0
  ELSE With((IF retryer.exponential_sleep_multiplier # 0
             THEN sleep_ms * Pow(retryer.exponential_sleep_multiplier,
                                 last_retrial)
             ELSE sleep_ms)
            + (IF retryer.jitter_ms # 0 THEN jitter ELSE 0),
            LAMBDA wait_time_ms :
              IF retryer.wait_ceiling_ms # 0
              THEN Min(wait_time_ms, retryer.wait_ceiling_ms)
              ELSE wait_time_ms)

\* _RaiseIfStop with the max_retrials test before the max_wait_ms test
RaiseIfStopRetrialsFirst(result, k, time_passed_ms, time_to_wait_ms) ==
  IF retryer.max_retrials # None /\ retryer.max_retrials <= k
  THEN RetryException("MaxRetrialsException", "Reached", result, k,
                      time_passed_ms, time_to_wait_ms)
  ELSE IF retryer.max_wait_ms # None
          /\ time_passed_ms + time_to_wait_ms > retryer.max_wait_ms
  THEN RetryException("WaitException", "Timeout", result, k, time_passed_ms,
                      time_to_wait_ms)
  ELSE NoException

\* _RaiseIfStop that lets one more retrial through
RaiseIfStopOneMore(result, k, time_passed_ms, time_to_wait_ms) ==
  IF retryer.max_wait_ms # None
     /\ time_passed_ms + time_to_wait_ms > retryer.max_wait_ms
  THEN RetryException("WaitException", "Timeout", result, k, time_passed_ms,
                      time_to_wait_ms)
  ELSE IF retryer.max_retrials # None /\ retryer.max_retrials < k
  THEN RetryException("MaxRetrialsException", "Reached", result, k,
                      time_passed_ms, time_to_wait_ms)
  ELSE NoException

\* _RaiseIfStop: the exception it raises, NoException when it returns
RaiseIfStop(result, k, time_passed_ms, time_to_wait_ms) ==
  IF retryer.max_wait_ms # None
     /\ time_passed_ms + time_to_wait_ms > retryer.max_wait_ms
  THEN RetryException("WaitException", "Timeout", result, k, time_passed_ms,
                      time_to_wait_ms)
  ELSE IF retryer.max_retrials # None /\ retryer.max_retrials <= k
  THEN RetryException("MaxRetrialsException", "Reached", result, k,
                      time_passed_ms, time_to_wait_ms)
  ELSE NoException

\* the entry point returns: RetryOnResult the result, RetryOnException and
\* DecoratedFunction its element [0]
Returned(x) == [kind |-> "return", value |-> x.value, exc |-> NoException]

\* the entry point raises: DecoratedFunction turns a MaxRetrialsException
\* into the exception of its last_result
Raised(e) ==
  [kind |-> "raise", value |-> "None",
   exc |-> IF args.entry = "DecoratedFunction"
              /\ e.type = "MaxRetrialsException"
           THEN FuncException(e.last_result.exc)
           ELSE e]

\* RetryOnResult ends at time t with the events evs
Ends(evs, t, out) ==
  /\ rpc' = (IF out.kind = "return" THEN "returned" ELSE "raised")
  /\ clock' = t
  /\ events' = evs
  /\ outcome' = out
  /\ retrial' = retrial

\* the events of an iteration up to the call of _RaiseIfStop: func called at
\* the time clock yields x at the time t
Trial(x, t, time_passed_ms, time_to_wait_ms) ==
  Append(events, Event("func", clock, retrial, 0, 0, x))
    \o (IF retryer.status_update_func
        THEN <<Event("status_update_func", t, retrial, time_passed_ms,
                     time_to_wait_ms, x)>>
        ELSE << >>)

\* an iteration from the call of _RaiseIfStop on: stop is what it raises
StopOrSleep(x, t, time_passed_ms, time_to_wait_ms, stop) ==
  /\ sleep_gen' = sleep_gen + 1
  /\ IF stop # NoException
     THEN Ends(Trial(x, t, time_passed_ms, time_to_wait_ms), t, Raised(stop))
     ELSE /\ events' = Append(Trial(x, t, time_passed_ms, time_to_wait_ms),
                              Event("sleep", t, retrial, time_passed_ms,
                                    time_to_wait_ms, x))
          /\ clock' = t + time_to_wait_ms
          /\ retrial' = retrial + 1
          /\ rpc' = "loop"
          /\ outcome' = outcome

\* an iteration that calls status_update_func before it asks sleep_gen
IterationStatusFirst(x, t, jitter) ==
  IF ~ShouldRetry(x)
  THEN /\ Ends(Append(events, Event("func", clock, retrial, 0, 0, x)), t,
               Returned(x))
       /\ sleep_gen' = sleep_gen
  ELSE IF SleepExhausted
  THEN /\ Ends(Trial(x, t, t - start_time_ms, 0), t,
               Raised(RetryException("MaxRetrialsException",
                                     "Sleep iteration stop", x, retrial,
                                     t - start_time_ms, 0)))
       /\ sleep_gen' = sleep_gen
  ELSE StopOrSleep(x, t, t - start_time_ms,
                   GetTimeToWait(retrial, NextSleep, jitter),
                   RaiseIfStop(x, retrial, t - start_time_ms,
                               GetTimeToWait(retrial, NextSleep, jitter)))

\* an iteration of the loop of RetryOnResult: func yields x at time t
Iteration(x, t, jitter) ==
  IF ~ShouldRetry(x)
  THEN /\ Ends(Append(events, Event("func", clock, retrial, 0, 0, x)), t,
               Returned(x))
       /\ sleep_gen' = sleep_gen
  ELSE IF SleepExhausted
  THEN /\ Ends(Append(events, Event("func", clock, retrial, 0, 0, x)), t,
               Raised(RetryException("MaxRetrialsException",
                                     "Sleep iteration stop", x, retrial,
                                     t - start_time_ms, 0)))
       /\ sleep_gen' = sleep_gen
  ELSE StopOrSleep(x, t, t - start_time_ms,
                   GetTimeToWait(retrial, NextSleep, jitter),
                   RaiseIfStop(x, retrial, t - start_time_ms,
                               GetTimeToWait(retrial, NextSleep, jitter)))

\* what func may yield
FuncResults ==
  IF args.entry = "RetryOnResult"
  THEN {Result(v, "None") : v \in {"good", "bad", "worse"}}
  ELSE {Result("good", "None"), Result("None", "E1"), Result("None", "E2")}

MaxCallMs == 1
MaxRetrial == 3

\* the values random.random() * jitter_ms may come to
Jitters == IF retryer.jitter_ms = 0 THEN {0} ELSE 0..(retryer.jitter_ms - 1)

\* the entry point is called: RetryOnResult up to its loop
RetryCall ==
  /\ rpc = "idle"
  /\ rpc' = "loop"
  /\ start_time_ms' = clock
  /\ retrial' = 0
  /\ sleep_gen' = 0
  /\ UNCHANGED <<retryer, args, clock, events, outcome>>
  /\ UNCHANGED <<doc_vars, gce_vars, csv_vars>>

\* one iteration of the loop of RetryOnResult; func takes d ms
RetryTrial ==
  /\ rpc = "loop"
  /\ retrial <= MaxRetrial
  /\ \E x \in FuncResults, d \in 0..MaxCallMs, jitter \in Jitters :
       Iteration(x, clock + d, jitter)
  /\ UNCHANGED <<retryer, args, start_time_ms>>
  /\ UNCHANGED <<doc_vars, gce_vars, csv_vars>>

NextRetry == RetryCall \/ RetryTrial

----------------------------------------------------------------------------
(* gce_cache.py: _OnGCECache.                                              *)

_GCE_CACHE_MAX_AGE == 600

\* str(b) for a bool b
Str(b) == IF b THEN "True" ELSE "False"

\* file_lock is not held
NoThread == ""

\* a thread that is not in GetOnGCE: pc is the line of gce_cache.py it is
\* at, um_ret and uf_ret are where _UpdateMemory and _UpdateFileCache
\* return to, todo is how many calls of GetOnGCE it has yet to make and
\* calls how many it has made, contacts counts the calls of _CheckServer in
\* the current one, fresh is last_write when the call began and ret what the
\* last call returned
IdleThread ==
  [pc |-> "idle", check_age |-> FALSE, on_gce |-> FALSE, um_ret |-> "",
   uf_ret |-> "", todo |-> 0, calls |-> 0, contacts |-> 0, fresh |-> None,
   ret |-> ""]

\* how many times the only thread of a process calls GetOnGCE
MaxGceCalls == 3

\* how many times each of several threads calls GetOnGCE
MaxThreadCalls == 1

\* how far time.time() runs
MaxGceTime == 1201

\* the amounts of time that pass between two steps
TickSteps == {600, 601}

\* thread t is at line l
AtLine(t, l) == thr[t].pc = l

\* GetOnGCE(check_age) is called
GetOnGCECall ==
  /\ \E t \in DOMAIN thr, c \in BOOLEAN :
       /\ AtLine(t, "idle")
       /\ thr[t].todo > 0
       /\ thr' = [thr EXCEPT ![t] = [@ EXCEPT !.pc = "27", !.check_age = c,
                                               !.todo = @ - 1, !.calls = @ + 1,
                                               !.contacts = 0,
                                               !.fresh = last_write]]
  /\ UNCHANGED <<connected, mtime, file_lock, cache_file, now, last_write>>
  /\ UNCHANGED <<doc_vars, retry_vars, csv_vars>>

\* if self.connected is None or self.mtime is None: self._UpdateMemory()
GetOnGCETest ==
  /\ \E t \in DOMAIN thr :
       /\ AtLine(t, "27")
       /\ thr' = [thr EXCEPT ![t] =
                    IF connected = "None" \/ mtime = None
                    THEN [@ EXCEPT !.pc = "38", !.um_ret = "29"]
                    ELSE [@ EXCEPT !.pc = "29"]]
  /\ UNCHANGED <<connected, mtime, file_lock, cache_file, now, last_write>>
  /\ UNCHANGED <<doc_vars, retry_vars, csv_vars>>

\* the age test with >= in place of >
GetOnGCEAgeNotOlder ==
  /\ \E t \in DOMAIN thr :
       /\ AtLine(t, "29")
       /\ thr' = [thr EXCEPT ![t] =
                    IF ~thr[t].check_age THEN [@ EXCEPT !.pc = "33"]
                    ELSE IF mtime = None THEN [@ EXCEPT !.pc = "TypeError"]
                    ELSE IF now - mtime >= _GCE_CACHE_MAX_AGE
                    THEN [@ EXCEPT !.pc = "48", !.uf_ret = "32"]
                    ELSE [@ EXCEPT !.pc = "33"]]
  /\ UNCHANGED <<connected, mtime, file_lock, cache_file, now, last_write>>
  /\ UNCHANGED <<doc_vars, retry_vars, csv_vars>>

\* if check_age: if time.time() - self.mtime > _GCE_CACHE_MAX_AGE: ...
GetOnGCEAge ==
  /\ \E t \in DOMAIN thr :
       /\ AtLine(t, "29")
       /\ thr' = [thr EXCEPT ![t] =
                    IF ~thr[t].check_age THEN [@ EXCEPT !.pc = "33"]
                    ELSE IF mtime = None THEN [@ EXCEPT !.pc = "TypeError"]
                    ELSE IF now - mtime > _GCE_CACHE_MAX_AGE
                    THEN [@ EXCEPT !.pc = "48", !.uf_ret = "32"]
                    ELSE [@ EXCEPT !.pc = "33"]]
  /\ UNCHANGED <<connected, mtime, file_lock, cache_file, now, last_write>>
  /\ UNCHANGED <<doc_vars, retry_vars, csv_vars>>

\* return self.connected
GetOnGCEReturn ==
  /\ \E t \in DOMAIN thr :
       /\ AtLine(t, "33")
       /\ thr' = [thr EXCEPT ![t] = [@ EXCEPT !.pc = "idle", !.ret = connected]]
  /\ UNCHANGED <<connected, mtime, file_lock, cache_file, now, last_write>>
  /\ UNCHANGED <<doc_vars, retry_vars, csv_vars>>

\* _UpdateMemory: if not os.path.exists(gce_cache_path): _UpdateFileCache()
UpdateMemoryExists ==
  /\ \E t \in DOMAIN thr :
       /\ AtLine(t, "38")
       /\ thr' = [thr EXCEPT ![t] =
                    IF ~cache_file.exists
                    THEN [@ EXCEPT !.pc = "48", !.uf_ret = "40"]
                    ELSE [@ EXCEPT !.pc = "40"]]
  /\ UNCHANGED <<connected, mtime, file_lock, cache_file, now, last_write>>
  /\ UNCHANGED <<doc_vars, retry_vars, csv_vars>>

\* _UpdateMemory: with self.file_lock (the lock is taken)
UpdateMemoryLock ==
  /\ \E t \in DOMAIN thr :
       /\ AtLine(t, "40")
       /\ file_lock = NoThread
       /\ file_lock' = t
       /\ thr' = [thr EXCEPT ![t].pc = "41"]
  /\ UNCHANGED <<connected, mtime, cache_file, now, last_write>>
  /\ UNCHANGED <<doc_vars, retry_vars, csv_vars>>

\* self.mtime = os.stat(gce_cache_path).st_mtime
UpdateMemoryStat ==
  /\ \E t \in DOMAIN thr :
       /\ AtLine(t, "41")
       /\ IF cache_file.exists
          THEN /\ mtime' = cache_file.mtime
               /\ thr' = [thr EXCEPT ![t].pc = "42"]
               /\ file_lock' = file_lock
          ELSE /\ mtime' = mtime
               /\ thr' = [thr EXCEPT ![t].pc = "OSError"]
               /\ file_lock' = NoThread
  /\ UNCHANGED <<connected, cache_file, now, last_write>>
  /\ UNCHANGED <<doc_vars, retry_vars, csv_vars>>

\* self.connected = gcecache_file.read() == str(True), and the lock is
\* released; _UpdateMemory returns
UpdateMemoryRead ==
  /\ \E t \in DOMAIN thr :
       /\ AtLine(t, "42")
       /\ connected' = Str(cache_file.content = Str(TRUE))
       /\ file_lock' = NoThread
       /\ thr' = [thr EXCEPT ![t].pc = thr[t].um_ret]
  /\ UNCHANGED <<mtime, cache_file, now, last_write>>
  /\ UNCHANGED <<doc_vars, retry_vars, csv_vars>>

\* _UpdateFileCache: on_gce = self._CheckServer(); the metadata server
\* answers, or does not
CheckServer ==
  /\ \E t \in DOMAIN thr, answer \in BOOLEAN :
       /\ AtLine(t, "48")
       /\ thr' = [thr EXCEPT ![t] = [@ EXCEPT !.pc = "49", !.on_gce = answer,
                                               !.contacts = @ + 1]]
  /\ UNCHANGED <<connected, mtime, file_lock, cache_file, now, last_write>>
  /\ UNCHANGED <<doc_vars, retry_vars, csv_vars>>

\* _UpdateFileCache that writes without taking the lock
UpdateFileCacheNoLock ==
  /\ \E t \in DOMAIN thr :
       /\ AtLine(t, "49")
       /\ file_lock' = file_lock
       /\ thr' = [thr EXCEPT ![t].pc = "50"]
  /\ UNCHANGED <<connected, mtime, cache_file, now, last_write>>
  /\ UNCHANGED <<doc_vars, retry_vars, csv_vars>>

\* _UpdateFileCache: with self.file_lock (the lock is taken)
UpdateFileCacheLock ==
  /\ \E t \in DOMAIN thr :
       /\ AtLine(t, "49")
       /\ file_lock = NoThread
       /\ file_lock' = t
       /\ thr' = [thr EXCEPT ![t].pc = "50"]
  /\ UNCHANGED <<connected, mtime, cache_file, now, last_write>>
  /\ UNCHANGED <<doc_vars, retry_vars, csv_vars>>

\* files.OpenForWritingPrivate(gce_cache_path): the file is there and empty
UpdateFileCacheOpen ==
  /\ \E t \in DOMAIN thr :
       /\ AtLine(t, "50")
       /\ thr' = [thr EXCEPT ![t].pc = "51"]
  /\ cache_file' = [exists |-> TRUE, content |-> "", mtime |-> now]
  /\ UNCHANGED <<connected, mtime, file_lock, now, last_write>>
  /\ UNCHANGED <<doc_vars, retry_vars, csv_vars>>

\* gcecache_file.write(str(on_gce)); the file is closed and the lock
\* released; _UpdateFileCache returns, to line 40 of _UpdateMemory or to
\* the call of _UpdateMemory in line 32
UpdateFileCacheWrite ==
  /\ \E t \in DOMAIN thr :
       /\ AtLine(t, "51")
       /\ cache_file' = [exists |-> TRUE, content |-> Str(thr[t].on_gce),
                         mtime |-> now]
       /\ file_lock' = NoThread
       /\ thr' = [thr EXCEPT ![t] =
                    IF thr[t].uf_ret = "32"
                    THEN [@ EXCEPT !.pc = "38", !.um_ret = "33"]
                    ELSE [@ EXCEPT !.pc = thr[t].uf_ret]]
  /\ last_write' = now
  /\ UNCHANGED <<connected, mtime, now>>
  /\ UNCHANGED <<doc_vars, retry_vars, csv_vars>>

\* time passes
Tick ==
  /\ \E d \in TickSteps :
       /\ now + d <= MaxGceTime
       /\ now' = now + d
  /\ UNCHANGED <<thr, connected, mtime, file_lock, cache_file, last_write>>
  /\ UNCHANGED <<doc_vars, retry_vars, csv_vars>>

NextGce ==
  \/ GetOnGCECall
  \/ GetOnGCETest
  \/ GetOnGCEAge
  \/ GetOnGCEReturn
  \/ UpdateMemoryExists
  \/ UpdateMemoryLock
  \/ UpdateMemoryStat
  \/ UpdateMemoryRead
  \/ CheckServer
  \/ UpdateFileCacheLock
  \/ UpdateFileCacheOpen
  \/ UpdateFileCacheWrite
  \/ Tick

\* the cache file is not there
NoFile == [exists |-> FALSE, content |-> "", mtime |-> 0]

\* no _OnGCECache is in use
GceIdle ==
  /\ thr = << >>
  /\ connected = "None"
  /\ mtime = None
  /\ file_lock = NoThread
  /\ cache_file = NoFile
  /\ now = 0
  /\ last_write = None

\* the module has just been imported (_OnGCECache.__init__) by a process
\* with the threads T, each of which will call GetOnGCE n times; the cache
\* file is absent or was written at time 0
InitGceWith(T, n) ==
  /\ thr = [t \in T |-> [IdleThread EXCEPT !.todo = n]]
  /\ connected = "None"
  /\ mtime = None
  /\ file_lock = NoThread
  /\ cache_file \in {NoFile} \cup
       {[exists |-> TRUE, content |-> c, mtime |-> 0] : c \in {"True", "False", ""}}
  /\ now = 0
  /\ last_write = None

----------------------------------------------------------------------------
(* csv_printer.py.                                                         *)

\* os.linesep
linesep == "\n"

RECURSIVE Join(_, _)
\* sep.join(items): a string is the sequence of its pieces
Join(sep, items) ==
  IF Len(items) = 0 THEN << >>
  ELSE IF Len(items) = 1 THEN items[1]
  ELSE items[1] \o <<sep>> \o Join(sep, Tail(items))

\* x.lower() for a label x
ToLower(x) == CASE x = "A" -> "a" [] x = "B" -> "b" [] OTHER -> x

\* the keys a dict column may have, in sorted order
Keys == <<"a", "b">>

\* the value of key in the dict d, given as <<key, value, key, value...>>
Lookup(d, key) == d[2 * (CHOOSE k \in 1..(Len(d) \div 2) : d[2 * k - 1] = key)]

\* [str(k) + '=' + str(v) for k, v in sorted(col.iteritems())]
SortedItems(d) ==
  LET has == SelectSeq(Keys, LAMBDA key :
                         \E k \in 1..(Len(d) \div 2) : d[2 * k - 1] = key)
  IN  [k \in 1..Len(has) |-> <<has[k], "=", Lookup(d, has[k])>>]

\* the string _AddRecord makes of one column: of a dict, a list or any
\* other value
Val(col) ==
  IF col.type = "dict" THEN Join(";", SortedItems(col.value))
  ELSE IF col.type = "list"
  THEN Join(";", [k \in 1..Len(col.value) |-> <<col.value[k]>>])
  ELSE col.value

\* one self._out.write(text); by tells the heading write of line 44 from the
\* record writes of lines 55 and 56
Write(by, text) == [by |-> by, text |-> text]

\* the labels of lines 38-43: the heading of AddHeading if there is one, else
\* the lowercased labels of the format; none stands for Labels() returning
\* None
HeadingLabels ==
  IF printer.heading # << >> THEN [none |-> FALSE, labels |-> printer.heading]
  ELSE IF printer.labels = << >>
  THEN [none |-> printer.labels_none, labels |-> << >>]
  ELSE [none |-> FALSE,
        labels |-> [k \in 1..Len(printer.labels) |-> ToLower(printer.labels[k])]]

\* the writes of lines 45-56 for a record
RecordWrites(record) ==
  <<Write("record", Join(",", [k \in 1..Len(record) |-> Val(record[k])])),
    Write("record", <<linesep>>)>>

\* how many records are added
MaxRecords == 3

\* the records added: a column is a string (value holds it), a list (of
\* the strings in value) or a dict (value holds its keys and values in turn)
Records ==
  {<<[type |-> "str", value |-> <<"1">>]>>,
   <<[type |-> "list", value |-> <<"x", "y">>],
     [type |-> "str", value |-> <<"2">>]>>,
   <<[type |-> "dict", value |-> <<"b", "v", "a", "w">>]>>}

\* the headings AddHeading is given
Headings == {<<"H", "K">>}

\* AddHeading(heading) of the printer base class: sets self._heading
AddHeading ==
  /\ csv_pc = "ready"
  /\ \E h \in Headings : printer' = [printer EXCEPT !.heading = h]
  /\ printer.heading = << >>
  /\ UNCHANGED <<csv_out, csv_pc>>
  /\ UNCHANGED <<doc_vars, retry_vars, gce_vars>>

\* _AddRecord(record)
AddRecord ==
  /\ csv_pc = "ready"
  /\ printer.records < MaxRecords
  /\ \E record \in Records :
       IF ~printer.heading_printed
       THEN IF ~printer.noheading
            THEN IF HeadingLabels.none
                 THEN /\ printer' = [printer EXCEPT !.heading_printed = TRUE,
                                                    !.records = @ + 1]
                      /\ csv_out' = csv_out
                      /\ csv_pc' = "TypeError"
                 ELSE /\ printer' = [printer EXCEPT !.heading_printed = TRUE,
                                                    !.records = @ + 1]
                      /\ csv_out' = csv_out
                           \o <<Write("heading",
                                      Join(",", [k \in 1..Len(HeadingLabels.labels) |->
                                                  <<HeadingLabels.labels[k]>>])
                                        \o <<linesep>>)>>
                           \o RecordWrites(record)
                      /\ csv_pc' = csv_pc
            ELSE /\ printer' = [printer EXCEPT !.heading_printed = TRUE,
                                               !.records = @ + 1]
                 /\ csv_out' = csv_out \o RecordWrites(record)
                 /\ csv_pc' = csv_pc
       ELSE /\ printer' = [printer EXCEPT !.records = @ + 1]
            /\ csv_out' = csv_out \o RecordWrites(record)
            /\ csv_pc' = csv_pc
  /\ UNCHANGED <<doc_vars, retry_vars, gce_vars>>

NextCsv == AddHeading \/ AddRecord

\* CsvPrinter.__init__ and ValuePrinter.__init__: the printer of a format
\* with or without labels and with or without the noheading attribute;
\* records counts the records added
InitCsvWith(Kinds) ==
  /\ printer \in {p \in [kind : Kinds, heading_printed : BOOLEAN,
                         heading : {<< >>}, labels : {<< >>, <<"A", "b">>},
                         noheading : BOOLEAN, labels_none : BOOLEAN,
                         records : {0}] :
                    /\ p.heading_printed = (p.kind = "value")
                    /\ p.labels_none => p.labels = << >>}
  /\ csv_out = << >>
  /\ csv_pc = "ready"

\* no printer is in use
CsvIdle ==
  /\ printer = [kind |-> "none", heading_printed |-> FALSE, heading |-> << >>,
                labels |-> << >>, noheading |-> FALSE, labels_none |-> FALSE,
                records |-> 0]
  /\ csv_out = << >>
  /\ csv_pc = "none"

\* no Retryer is in use
RetryIdle ==
  /\ retryer = [max_retrials |-> None, max_wait_ms |-> None,
                exponential_sleep_multiplier |-> 0, jitter_ms |-> 0,
                status_update_func |-> FALSE, wait_ceiling_ms |-> 0]
  /\ args = [entry |-> "RetryOnResult", retry_given |-> FALSE, retry_on |-> {},
             sleep_ms |-> [iterable |-> FALSE, ms |-> None, seq |-> << >>]]
  /\ rpc = "none"
  /\ clock = 0
  /\ start_time_ms = 0
  /\ retrial = 0
  /\ sleep_gen = 0
  /\ events = << >>
  /\ outcome = [kind |-> "none", value |-> "None", exc |-> NoException]

----------------------------------------------------------------------------
(* Input lines.                                                            *)

Blank      == <<>>
Plus       == <<"+">>
HFoo       == <<"=", " ", "F", "o", "o", " ", "=">>
HFooTight  == <<"=", "F", "o", "o", "=">>
HFooLeft   == <<"=", "=", " ", "F", "o", "o", " ", "=">>
HFooRight  == <<"=", " ", "F", "o", "o", " ", "=", "=">>
HFoo2      == <<"=", "=", " ", "F", "o", "o", " ", "=", "=">>
HFooTrail  == <<"=", " ", "F", "o", "o", " ", "=", " ">>
HOneSpace  == <<"=", " ", "=">>
HOnly      == <<"=">>
HOnly2     == <<"=", "=">>
HNotes     == <<"=", "=", " ", "N", "O", "T", "E", "S", " ", "=", "=">>
HName      == <<"=", " ", "N", "A", "M", "E", " ", "=">>
TCsv       == <<"[", "f", "o", "r", "m", "a", "t", "=", "\"", "c", "s", "v", "\"", "]">>
TDelim     == <<"|", "=", "=", "=", "=">>
TDelimLong == <<"|", "=", "=", "=", "=", "=", "=", " ">>
TRow       == <<"a", ",", "b">>
DTerm1     == <<"a", ":", ":">>
DTerm2     == <<"b", ":", ":", ":">>
DTermBody  == <<"c", ":", ":", " ", "d">>
Bul1       == <<"-", " ", "a">>
Bul2       == <<"-", "-", " ", "b">>
Bul3       == <<"-", "-", "-", " ", "c">>
BulIndent  == <<" ", "-", " ", "d">>
Ex2        == <<" ", " ", "e">>
Ex1        == <<" ", "f">>
Text       == <<"a", "b">>
Text2      == <<"c", " ", "d">>
Note       == <<"Z">>

\* the sequences over S of length at most n
SeqsUpTo(S, n) == UNION {[1..k -> S] : k \in 0..n}

MaxLines == 4
MaxProseLines == 5
MaxRerunLines == 3
MaxTableLines == 5

HeadingLines == {Blank, HFoo, HFooTight, HFooLeft, HFooRight, HFoo2, HFooTrail,
                 HOneSpace, HOnly, Text}
ListLines    == {Blank, Bul1, Bul2, Bul3, BulIndent, DTerm1, DTerm2, Text, HFoo}
TableLines   == {Blank, TCsv, TDelim, TDelimLong, TRow, Text}
NotesLines   == {Blank, HNotes, HFoo, Text, TCsv, TDelim, Bul1, Ex2}
ProseLines   == {Blank, Text, Text2, HFooTight}
RerunLines   == {Blank, Plus, Bul1, Bul2, DTermBody, Ex2, Ex1, Text, HName}

HNotesTrail == <<"=", "=", " ", "N", "O", "T", "E", "S", " ", "=", "=", " ">>
HNotes1     == <<"=", " ", "N", "O", "T", "E", "S", " ", "=">>

MaxStyleLines == 3

StyleLines == {Blank, HNotes, HNotesTrail, HNotes1, Text, Bul1}

\* style names a caller may pass: keys of _STYLES and others
StyleNames == {"text", "html", "markdown", "pdf", ""}

\* the characters of the lines that exercise the emphasis heuristics
EmphasisChars == {"*", "_", BQ, "a", " ", "/", "."}

MaxEmphasisLen == 5

\* every line of at most MaxEmphasisLen of these characters
EmphasisLines == SeqsUpTo(EmphasisChars, MaxEmphasisLen)

\* the arguments of RenderDocument and the converter before it is called
InitStream(Lines, n, Notes, r) ==
  /\ fin \in SeqsUpTo(Lines, n)
  /\ arg_notes \in Notes
  /\ runs = r
  /\ pos = 0
  /\ buf = << >>
  /\ depth = 0
  /\ lists = <<ListElementState>>
  /\ example = 0
  /\ next_example = 0
  /\ paragraph = FALSE
  /\ next_paragraph = FALSE
  /\ notes = << >>
  /\ line = << >>
  /\ calls = << >>
  /\ pc = "new"
  /\ last = ""
  /\ bullet_run = 0
  /\ run = 0
  /\ prev_calls = << >>
  /\ rets = << >>

\* the state before RenderDocument is called for the text style on a stream
\* that ends with a newline
InitWith(Lines, n, Notes, r) ==
  /\ style = "text"
  /\ error = << >>
  /\ fin_newline = TRUE
  /\ InitStream(Lines, n, Notes, r)
  /\ RetryIdle
  /\ GceIdle
  /\ CsvIdle

Init        == InitWith(ListLines, MaxLines, {<< >>}, 1)
InitHeading == InitWith(HeadingLines, MaxLines, {<< >>}, 1)
InitTable   == InitWith(TableLines, MaxTableLines, {<< >>}, 1)
InitNotes   == InitWith(NotesLines, MaxLines, {<< >>, Note}, 1)
InitProse   == InitWith(ProseLines, MaxProseLines, {<< >>, Note}, 1)
InitRerun   == InitWith(RerunLines, MaxRerunLines, {<< >>, Note}, 2)

\* a document of at most one line of emphasis characters
InitEmphasis == InitWith(EmphasisLines, 1, {<< >>}, 1)

\* any style name, with or without notes, on a stream whose last line may
\* lack its newline (a last line without a newline is not empty)
InitStyle ==
  /\ style \in StyleNames
  /\ error = << >>
  /\ InitStream(StyleLines, MaxStyleLines, {<< >>, Note}, 1)
  /\ fin_newline \in BOOLEAN
  /\ ~fin_newline => (fin # << >> /\ fin[Len(fin)] # << >>)
  /\ RetryIdle
  /\ GceIdle
  /\ CsvIdle

\* no document is converted
DocIdle ==
  /\ style = "text"
  /\ error = << >>
  /\ fin_newline = TRUE
  /\ InitStream({Blank}, 0, {<< >>}, 0)

\* a Retryer and the arguments of an entry point, before the call
InitRetryWith(Retryers, Args) ==
  /\ DocIdle
  /\ GceIdle
  /\ CsvIdle
  /\ retryer \in Retryers
  /\ args \in Args
  /\ rpc = "idle"
  /\ clock = 0
  /\ start_time_ms = 0
  /\ retrial = 0
  /\ sleep_gen = 0
  /\ events = << >>
  /\ outcome = [kind |-> "none", value |-> "None", exc |-> NoException]

\* a sleep_ms that is a number or None: itertools.repeat(sleep_ms)
Repeat(ms) == [iterable |-> FALSE, ms |-> ms, seq |-> << >>]

\* a sleep_ms that is an iterable
Iterable(seq) == [iterable |-> TRUE, ms |-> None, seq |-> seq]

MaxN == 2

\* RetryOnResult with max_retrials = N, no max_wait_ms, a sleep_ms that is a
\* number or None
InitMaxRetrials ==
  InitRetryWith([max_retrials : 0..MaxN, max_wait_ms : {None},
                 exponential_sleep_multiplier : {0, 2}, jitter_ms : {0, 2},
                 status_update_func : BOOLEAN, wait_ceiling_ms : {0, 3}],
                [entry : {"RetryOnResult"}, retry_given : {TRUE},
                 retry_on : {{"bad", "worse"}},
                 sleep_ms : {Repeat(None), Repeat(0), Repeat(1)}])

Spec        == Init /\ [][Next]_vars
SpecHeading == InitHeading /\ [][Next]_vars
SpecTable   == InitTable /\ [][Next]_vars
SpecNotes   == InitNotes /\ [][Next]_vars
SpecProse   == InitProse /\ [][Next]_vars
SpecRerun   == InitRerun /\ [][Next]_vars
SpecEmphasis == InitEmphasis /\ [][Next]_vars
SpecStyle   == InitStyle /\ [][NextStyle]_vars
SpecMaxRetrials == InitMaxRetrials /\ [][NextRetry]_vars

\* the types of the state
TypeOK ==
  /\ pc \in {"new", "run", "attr", "done", "raised", "ValueError"}
  /\ fin_newline \in BOOLEAN
  /\ pos \in 0..Len(fin)
  /\ depth \in Int
  /\ Len(lists) >= 1
  /\ example \in Nat /\ next_example \in Nat
  /\ paragraph \in BOOLEAN /\ next_paragraph \in BOOLEAN

----------------------------------------------------------------------------
(* Vocabulary of the properties.                                           *)

IsPrefix(a, b) == Len(a) <= Len(b) /\ SubSeq(b, 1, Len(a)) = a

\* the renderer calls a step makes
NewCalls == SubSeq(calls', Len(calls) + 1, Len(calls'))

\* a step of the run loop that hands one line of the stream to the classifiers
LineStep == pc = "run" /\ pos < Len(fin) /\ pos' > pos

\* the line such a step hands to the classifiers
StepLine == RStrip(fin[pos + 1])

\* what flushing the pending text b asks of the renderer
FlushOf(b) ==
  LET a == AttrScan(Escape(b), 0, << >>, << >>)
  IN  Append(a.calls, FillCall(a.ret))

\* the text the renderer is given for the raw text b
Rendered(b) == AttrScan(Escape(b), 0, << >>, << >>).ret

Structural == {"Heading", "List", "Table", "Example", "Line", "Synopsis"}

\* a run of n '=' characters
Equals(n) == [k \in 1..n |-> "="]

\* l is n '=', a space, text, a space, n '='
HeadingOf(l, n, text) == l = Equals(n) \o <<" ">> \o text \o <<" ">> \o Equals(n)

\* l has the heading form for some level and text
IsHeadingForm(l) ==
  \E n \in 1..Len(l) :
    /\ Len(l) >= 2 * n + 2
    /\ HeadingOf(l, n, Slice(l, n + 1, Len(l) - n - 1))

\* the level of a line of the heading form
HeadingLevel(l) ==
  CHOOSE n \in 1..Len(l) :
    Len(l) >= 2 * n + 2 /\ HeadingOf(l, n, Slice(l, n + 1, Len(l) - n - 1))

IsNotesHeadingLine(l) == \E n \in 1..Len(l) : HeadingOf(RStrip(l), n, NOTES)

NotesHeadingLines(f) == {k \in 1..Len(f) : IsNotesHeadingLine(f[k])}

NotesHeadingCalls(cs) ==
  {k \in 1..Len(cs) : cs[k].op = "Heading" /\ cs[k].text = NOTES}

\* the calls that hand the notes text to the renderer
NotesRendered(cs) ==
  {k \in 1..Len(cs) : cs[k].op \notin {"Font", "Link"}
                       /\ Find(cs[k].text, Rendered(arg_notes), 0) >= 0}

----------------------------------------------------------------------------
(* C1  No input makes Run raise: every line is consumed by some            *)
(* classifier, at worst by the fallback.                                   *)
NoFatalFailure == pc # "raised"

(* C2  In every state of a conversion the nesting depth indexes the list   *)
(* stack: 0 <= _depth < len(_lists).                                       *)
DepthInRange == pc \in {"run", "done"} => (0 <= depth /\ depth < Len(lists))

(* C3  A step that makes a structural renderer call first passes the text  *)
(* pending from earlier lines to Fill, and a step that makes no call keeps *)
(* the pending text.                                                       *)
PendingTextFlushed ==
  [][(pc = "run" /\ buf # << >>) =>
       /\ (\E k \in 1..Len(NewCalls) : NewCalls[k].op \in Structural)
            => IsPrefix(FlushOf(buf), NewCalls)
       /\ NewCalls = << >> => IsPrefix(buf, buf')]_vars

(* C4  In a run of consecutive un-indented bullet lines that starts with   *)
(* one marker at depth 0 and never adds more than one marker from a line   *)
(* to the next, every line emits List(d), d its own marker count.          *)
BulletStackDiscipline ==
  [][(LineStep /\ bullet_run' > 0) =>
       /\ depth' = bullet_run'
       /\ NewCalls # << >>
       /\ NewCalls[Len(NewCalls)] = ListCall(bullet_run')]_vars

----------------------------------------------------------------------------
(* Table blocks, as the input determines them.                             *)

IsTableHeader(l) ==
  l # << >> /\ l[1] = "[" /\ l[Len(l)] = "]" /\ Find(l, CsvFormat, 0) >= 0

IsDelimiter(l) == StartsWith(RStrip(l), TableDelim)

\* the delimiter lines after line h of f
DelimitersAfter(f, h) == {k \in (h + 1)..Len(f) : IsDelimiter(f[k])}

\* the line that ends the block opened by line h: the second delimiter
\* line after h, or Len(f) + 1 when the input ends first
TableEnd(f, h) ==
  IF \E a, b \in DelimitersAfter(f, h) : a < b
  THEN CHOOSE b \in DelimitersAfter(f, h) :
         Cardinality({a \in DelimitersAfter(f, h) : a < b}) = 1
  ELSE Len(f) + 1

\* the rows of that block: the lines before its end that are no delimiter
RECURSIVE TableRows(_, _, _)
TableRows(f, k, e) ==
  IF k >= e THEN << >>
  ELSE IF IsDelimiter(f[k]) THEN TableRows(f, k + 1, e)
  ELSE <<TableCall(Rendered(RStrip(f[k])))>> \o TableRows(f, k + 1, e)

TableCalls(cs) == SelectSeq(cs, LAMBDA c : c.op = "Table")

----------------------------------------------------------------------------
(* C6  With notes and no NOTES heading line in the input, the finish step  *)
(* ends the calls with Heading(2, NOTES), Fill(notes), Finish, and that is *)
(* the only NOTES heading; without notes every NOTES heading belongs to a  *)
(* NOTES heading line of the input.                                        *)
NotesSynthesized ==
  pc = "done" =>
    /\ (arg_notes # << >> /\ NotesHeadingLines(fin) = {}) =>
         /\ Len(calls) >= 4
         /\ SubSeq(calls, Len(calls) - 3, Len(calls)) =
              <<LineCall, HeadingCall(2, NOTES), FillCall(Rendered(arg_notes)),
                FinishCall>>
         /\ Cardinality(NotesHeadingCalls(calls)) = 1
         /\ Cardinality(NotesRendered(calls)) = 1
    /\ arg_notes = << >> =>
         Cardinality(NotesHeadingCalls(calls))
           <= Cardinality(NotesHeadingLines(fin))

\* a finished conversion of some lines, with notes and no NOTES heading line
NotesSynthesizedWitness ==
  /\ pc = "done"
  /\ arg_notes # << >>
  /\ NotesHeadingLines(fin) = {}
  /\ Len(fin) >= 2
  /\ \E k \in 1..Len(calls) : calls[k] = HeadingCall(2, NOTES)

(* C7  With notes and a NOTES heading in the input, the notes are handed   *)
(* to the renderer exactly once, as the start of the first text after the  *)
(* first NOTES heading call, and no NOTES heading is synthesized.          *)
NotesSplicedOnce ==
  (pc = "done" /\ arg_notes # << >> /\ notes = << >>) =>
    /\ Cardinality(NotesRendered(calls)) = 1
    /\ \A k \in NotesRendered(calls) :
         /\ IsPrefix(Rendered(arg_notes), calls[k].text)
         /\ \E h \in NotesHeadingCalls(calls) :
              h < k /\ \A j \in (h + 1)..(k - 1) : calls[j].text = << >>
    /\ Cardinality(NotesHeadingCalls(calls))
         <= Cardinality(NotesHeadingLines(fin))

----------------------------------------------------------------------------
(* C8  A line is treated as a heading exactly when it is n >= 1 '=', a     *)
(* space, the text, a space and n '='; it then emits Heading(n, text) and  *)
(* resets the depth, and a line that starts with '=' without having that   *)
(* form falls through to the fallback.                                     *)
HeadingSymmetry ==
  [][LineStep =>
       /\ last' = "Heading" <=> IsHeadingForm(StepLine)
       /\ IsHeadingForm(StepLine) =>
            LET n == HeadingLevel(StepLine)
            IN  /\ depth' = 0
                /\ \E k \in 1..Len(NewCalls) :
                     NewCalls[k] =
                       HeadingCall(n, Rendered(Slice(StepLine, n + 1,
                                                     Len(StepLine) - n - 1)))
       /\ (StepLine # << >> /\ StepLine[1] = "=" /\ ~IsHeadingForm(StepLine)
           /\ Find(StepLine, <<":", ":">>, 0) < 0)
            => (last' = "Remainder" /\ pc' = "run")]_vars

----------------------------------------------------------------------------
(* Plain prose, as the input determines its rendering.                     *)

\* the calls for the lines of f from k on, `pending` the text not yet filled
RECURSIVE ProseCalls(_, _, _)
ProseCalls(f, k, pending) ==
  LET flush == IF pending = << >> THEN << >> ELSE <<FillCall(pending)>>
  IN  IF k > Len(f) THEN flush \o <<FinishCall>>
      ELSE IF RStrip(f[k]) = << >>
           THEN flush \o <<LineCall>> \o ProseCalls(f, k + 1, << >>)
      ELSE ProseCalls(f, k + 1, pending \o <<" ">> \o RStrip(f[k]))

----------------------------------------------------------------------------
----------------------------------------------------------------------------
(* Emphasis, as the text alone determines it.  The left neighbour of the   *)
(* first character and the right neighbour of the last one count as a      *)
(* space.                                                                  *)

EmphasisMarkers == {"*", "_", BQ}

\* the font an emphasis character stands for
EmphasisKind(c) == IF c = "*" THEN "bold" ELSE IF c = "_" THEN "italic" ELSE "code"

LeftOf(b, i) == IF i > 0 THEN At(b, i - 1) ELSE " "

RightOf(b, i) == IF i < Len(b) - 1 THEN At(b, i + 1) ELSE " "

\* the emphasis character at index i of b is left literal
Suppressed(b, i) ==
  \/ IsAlnum(LeftOf(b, i)) /\ IsAlnum(RightOf(b, i))
  \/ /\ At(b, i) = "*"
     /\ LeftOf(b, i) \in {" ", "/"}
     /\ RightOf(b, i) \in {" ", ".", "/"}
  \/ LeftOf(b, i) \in {" ", "/"} /\ RightOf(b, i) \in {" ", "."}

RECURSIVE ExpectedFonts(_, _)
\* the Font calls for the text b from index i on; a doubled emphasis
\* character is not a single one and is passed over as a pair
ExpectedFonts(b, i) ==
  IF i >= Len(b) THEN << >>
  ELSE IF At(b, i) \notin EmphasisMarkers THEN ExpectedFonts(b, i + 1)
  ELSE IF RightOf(b, i) = At(b, i) THEN ExpectedFonts(b, i + 2)
  ELSE IF Suppressed(b, i) THEN ExpectedFonts(b, i + 1)
  ELSE <<FontCall(EmphasisKind(At(b, i)))>> \o ExpectedFonts(b, i + 1)

RECURSIVE ExpectedText(_, _)
\* the text for b from index i on: a Font marker where a Font call is made,
\* the character itself everywhere else
ExpectedText(b, i) ==
  IF i >= Len(b) THEN << >>
  ELSE IF At(b, i) \notin EmphasisMarkers THEN <<At(b, i)>> \o ExpectedText(b, i + 1)
  ELSE IF RightOf(b, i) = At(b, i)
       THEN <<At(b, i), At(b, i)>> \o ExpectedText(b, i + 2)
  ELSE IF Suppressed(b, i) THEN <<At(b, i)>> \o ExpectedText(b, i + 1)
  ELSE <<FontMark(EmphasisKind(At(b, i)))>> \o ExpectedText(b, i + 1)

(* C11  When the pending text is flushed at the end of the input, an       *)
(* emphasis character between two alphanumerics, a '*' with a space or '/' *)
(* on its left and a space, '.' or '/' on its right, and any emphasis      *)
(* character with a space or '/' on its left and a space or '.' on its     *)
(* right stay literal in the text; every other single emphasis character   *)
(* becomes one Font call of its kind, in text order.                       *)
EmphasisSuppression ==
  [][(pc = "run" /\ pos >= Len(fin) /\ buf # << >> /\ notes = << >>) =>
       NewCalls = ExpectedFonts(buf, 0)
                    \o <<FillCall(ExpectedText(buf, 0)), FinishCall>>]_vars

\* "a * a" was rendered without a Font call, or "*a*" with two Font(bold)
EmphasisSuppressionWitness ==
  /\ pc = "done"
  /\ \/ /\ fin = <<<<"a", " ", "*", " ", "a">>>>
        /\ calls = <<FillCall(<<" ", "a", " ", "*", " ", "a">>), FinishCall>>
     \/ /\ fin = <<<<"*", "a", "*">>>>
        /\ calls = <<FontCall("bold"), FontCall("bold"),
                     FillCall(<<" ", FontMark("bold"), "a", FontMark("bold")>>),
                     FinishCall>>

----------------------------------------------------------------------------
(* Unknown styles.                                                         *)

\* the supported set of styles
SupportedStyles == {"devsite", "html", "man", "markdown", "text"}

\* the error message names s
Names(s) == \E k \in 1..Len(error) : error[k] = s

(* C12  RenderDocument with a style outside {devsite, html, man, markdown, *)
(* text} fails with an error that names the requested style and the        *)
(* supported set; no line is read and no renderer call is made.            *)
UnsupportedStyleNamesSet ==
  (style \notin SupportedStyles /\ pc # "new") =>
    /\ pc = "ValueError"
    /\ Names(style)
    /\ \A s \in SupportedStyles : Names(s)
    /\ pos = 0
    /\ calls = << >>

(* C12 as amended: the error names the requested style (not the supported  *)
(* set); no line is read and no renderer call is made.                     *)
UnsupportedStyleFails ==
  (style \notin SupportedStyles /\ pc # "new") =>
    /\ pc = "ValueError"
    /\ Names(style)
    /\ pos = 0
    /\ calls = << >>

\* RenderDocument has failed for the style "pdf" on a stream with lines
UnsupportedStyleWitness ==
  /\ style = "pdf"
  /\ pc = "ValueError"
  /\ error = <<"Unknown markdown document style [", "pdf", "].">>
  /\ Len(fin) >= 2

----------------------------------------------------------------------------
(* The end of the input.                                                   *)

\* the positions of the Finish calls in cs
FinishCalls(cs) == {k \in 1..Len(cs) : cs[k].op = "Finish"}

\* cs holds a Fill of the text b
Filled(cs, b) == \E k \in 1..Len(cs) : cs[k] = FillCall(Rendered(b))

(* C13  With a renderer other than the markdown one, the step that finds   *)
(* the end of the input passes the pending text, and the notes no NOTES    *)
(* heading consumed, to Fill and then calls Finish with an empty buffer;    *)
(* Finish is the last call, it is called once, and no other step calls it.  *)
FinishOnceLast ==
  [][/\ (pc = "run" /\ pc' = "done" /\ style # "markdown") =>
          /\ Cardinality(FinishCalls(calls')) = 1
          /\ calls'[Len(calls')] = FinishCall
          /\ buf' = << >>
          /\ buf # << >> => Filled(NewCalls, buf)
          /\ notes # << >> => Filled(NewCalls, notes)
     /\ pc' # "done" => FinishCalls(calls') = {}]_vars

\* the end of the input was found with pending text and with notes left
FinishOnceLastWitness ==
  /\ pc = "done"
  /\ style = "text"
  /\ notes = Note
  /\ Len(calls) >= 5
  /\ calls[Len(calls)] = FinishCall
  /\ calls[Len(calls) - 1] = FillCall(Note)
  /\ calls[Len(calls) - 4] = FillCall(<<" ", "a", "b">>)

----------------------------------------------------------------------------
(* The markdown renderer.                                                  *)

RECURSIVE Written(_)
\* the texts of the calls cs, one after the other
Written(cs) == IF cs = << >> THEN << >> ELSE Head(cs).text \o Written(Tail(cs))

RECURSIVE RawRange(_, _)
\* the lines a..b of the stream as they are in it
RawRange(a, b) == IF a > b THEN << >> ELSE RawLine(a) \o RawRange(a + 1, b)

\* the lines of the stream that are the literal == NOTES == heading
LiteralNotesLines == {k \in 1..Len(fin) : fin[k] = HNotes}

\* the first of them
FirstNotesLine ==
  CHOOSE k \in LiteralNotesLines : \A j \in LiteralNotesLines : k <= j

\* the output the markdown style is to write for the stream and the notes
MarkdownOutput ==
  IF arg_notes = << >> THEN RawRange(1, Len(fin))
  ELSE IF LiteralNotesLines # {}
       THEN RawRange(1, FirstNotesLine)
              \o <<"\n">> \o arg_notes \o <<"\n">>
              \o RawRange(FirstNotesLine + 1, Len(fin))
  ELSE RawRange(1, Len(fin)) \o NotesSection \o arg_notes \o <<"\n">>

(* C14  With the markdown renderer only Write is called and the text       *)
(* written is the input, in order, with the notes (when given) written     *)
(* once: right after the first line that is the literal == NOTES ==        *)
(* heading if the input has one, in a new NOTES section after all the      *)
(* input otherwise.                                                        *)
MarkdownIdentity ==
  (style = "markdown" /\ pc = "done") =>
    /\ \A k \in 1..Len(calls) : calls[k].op = "Write"
    /\ Written(calls) = MarkdownOutput

----------------------------------------------------------------------------
(* Retrying.                                                               *)

\* the calls of func so far, in order
FuncEvents == SelectSeq(events, LAMBDA e : e.ev = "func")

\* the results of all of them ask for a retry
AllRetry(f) == \A k \in 1..Len(f) : f[k].result.value \in args.retry_on

(* C15  With max_retrials = N, no max_wait_ms and a sleep source that does *)
(* not end, RetryOnResult calls func at most N + 1 times; it returns the   *)
(* first result that asks for no retry; when N + 1 results in a row ask    *)
(* for a retry it raises MaxRetrialsException with the last result and     *)
(* last_retrial = N and does not call func again.                          *)
MaxRetrialsBound ==
  LET f == FuncEvents
      N == retryer.max_retrials
  IN  /\ Len(f) <= N + 1
      /\ rpc = "loop" => (Len(f) <= N /\ AllRetry(f))
      /\ rpc = "returned" =>
           /\ Len(f) >= 1
           /\ outcome.kind = "return"
           /\ outcome.value = f[Len(f)].result.value
           /\ outcome.value \notin args.retry_on
           /\ AllRetry(SubSeq(f, 1, Len(f) - 1))
      /\ rpc = "raised" =>
           /\ Len(f) = N + 1
           /\ AllRetry(f)
           /\ outcome.kind = "raise"
           /\ outcome.exc.type = "MaxRetrialsException"
           /\ outcome.exc.last_result = f[N + 1].result
           /\ outcome.exc.last_retrial = N

\* three results in a row asked for a retry with max_retrials = 2
MaxRetrialsBoundWitness ==
  /\ rpc = "raised"
  /\ retryer.max_retrials = 2
  /\ Len(FuncEvents) = 3
  /\ FuncEvents[1].result.value = "bad"
  /\ outcome.exc.type = "MaxRetrialsException"
  /\ outcome.exc.last_result.value = "worse"
  /\ outcome.exc.last_retrial = 2

\* a function decorated with RetryOnException and no should_retry_if: every
\* way of stopping
InitDecorated ==
  InitRetryWith([max_retrials : {None, 1}, max_wait_ms : {None, 2},
                 exponential_sleep_multiplier : {0, 2}, jitter_ms : {0, 2},
                 status_update_func : BOOLEAN, wait_ceiling_ms : {0}],
                [entry : {"DecoratedFunction"}, retry_given : {FALSE},
                 retry_on : {{}},
                 sleep_ms : {Repeat(None), Repeat(1), Iterable(<<1>>),
                             Iterable(<<0, 2>>)}])

SpecDecorated == InitDecorated /\ [][NextRetry]_vars

\* the result of the last call of func
LastFunc == FuncEvents[Len(FuncEvents)].result

(* C16  A function decorated with RetryOnException yields the first value  *)
(* f returns or the last exception f raised: however retrying stops        *)
(* (max_retrials, sleep iterable exhausted, max_wait_ms), the exception    *)
(* that reaches the caller is the one f raised on its final trial.         *)
DecoratedYieldsLastException ==
  /\ rpc = "returned" =>
       /\ LastFunc.exc = "None"
       /\ outcome.kind = "return"
       /\ outcome.value = LastFunc.value
  /\ rpc = "raised" =>
       /\ LastFunc.exc # "None"
       /\ outcome.kind = "raise"
       /\ outcome.exc = FuncException(LastFunc.exc)

\* Retryer.RetryOnException with and without a should_retry_if, which asks
\* for a retry on E1 only
InitRetryOnException ==
  InitRetryWith([max_retrials : {None, 1}, max_wait_ms : {None, 2},
                 exponential_sleep_multiplier : {0, 2}, jitter_ms : {0, 2},
                 status_update_func : BOOLEAN, wait_ceiling_ms : {0, 3}],
                [entry : {"RetryOnException"}, retry_given : BOOLEAN,
                 retry_on : {{"E1"}},
                 sleep_ms : {Repeat(None), Repeat(1), Iterable(<<1>>)}])

SpecRetryOnException == InitRetryOnException /\ [][NextRetry]_vars

(* C17  Retryer.RetryOnException returns normally only when func returned  *)
(* normally on its last trial, and then returns that value: an exception   *)
(* of func for which should_retry_if returns false reaches the caller and  *)
(* is not replaced by a normal return of None.                             *)
ReturnsOnlyWhatFuncReturned ==
  rpc = "returned" =>
    /\ LastFunc.exc = "None"
    /\ outcome.kind = "return"
    /\ outcome.value = LastFunc.value

\* RetryOnResult with max_wait_ms set, with and without max_retrials
InitMaxWait ==
  InitRetryWith([max_retrials : {None, 1, 2}, max_wait_ms : {1, 3},
                 exponential_sleep_multiplier : {0, 2}, jitter_ms : {0, 2},
                 status_update_func : BOOLEAN, wait_ceiling_ms : {0, 3}],
                [entry : {"RetryOnResult"}, retry_given : {TRUE},
                 retry_on : {{"bad", "worse"}},
                 sleep_ms : {Repeat(None), Repeat(1), Iterable(<<1, 1>>)}])

SpecMaxWait == InitMaxWait /\ [][NextRetry]_vars

StatusAfterEachTrial ==
  retryer.status_update_func =>
    \A k \in 1..Len(events) :
      /\ events[k].ev = "func" =>
           /\ k < Len(events)
           /\ events[k + 1].ev = "status_update_func"
           /\ events[k + 1].retrial = events[k].retrial
           /\ events[k + 1].result = events[k].result
           /\ events[k + 1].time_passed_ms = events[k + 1].at - start_time_ms
      /\ events[k].ev = "status_update_func" =>
           /\ k > 1
           /\ events[k - 1].ev = "func"

----------------------------------------------------------------------------
(* Nesting depth.                                                          *)

(* C20  The nesting depth changes by at most one (+1 or -1) per classifier *)
(* step: processing a single input line never moves _depth by more than    *)
(* one level from its value before the line.                               *)
DepthStepsByOne ==
  [][LineStep => depth' - depth \in {-1, 0, 1}]_vars

(* C20, amended  Processing a single input line either resets _depth to 0 *)
(* or raises it by at most one level; it may lower it by any number of     *)
(* levels: a heading and the end of a list reset it to 0 (from a negative  *)
(* _depth too), and a list item pops to the level of the item, or past the *)
(* bottom of the stack, where the IndexError ends Run.                     *)
DepthRisesByOne ==
  [][LineStep =>
       /\ depth' <= depth + 1 \/ depth' = 0
       /\ depth' < depth - 1 =>
            \/ depth' = 0
            \/ last' \in {"BulletList", "DefinitionList"}
            \/ pc' = "raised"]_vars

\* a heading after a bullet item at depth 2 has reset the depth to 0
DepthRisesByOneWitness ==
  /\ pc = "run"
  /\ Len(fin) >= 3
  /\ SubSeq(fin, 1, 3) = <<Bul1, Bul2, HFoo>>
  /\ pos = 3
  /\ last = "Heading"
  /\ depth = 0
  /\ \E k \in 1..Len(calls) : calls[k].op = "List" /\ calls[k].n = 2

----------------------------------------------------------------------------
(* The NAME and SYNOPSIS headings.                                         *)

HSynopsis == <<"=", " ", "S", "Y", "N", "O", "P", "S", "I", "S", " ", "=">>

MaxSynopsisLines == 4

SynopsisLines == {Blank, HName, HSynopsis, Text, Text2, DTerm1}

InitSynopsis == InitWith(SynopsisLines, MaxSynopsisLines, {<< >>}, 1)

SpecSynopsis == InitSynopsis /\ [][Next]_vars

\* l is a heading whose text is NAME or SYNOPSIS
IsSynopsisHeading(l) ==
  \E n \in 1..Len(l) : HeadingOf(l, n, NAME) \/ HeadingOf(l, n, SYNOPSIS)

\* the Synopsis calls among cs
SynopsisCalls(cs) == SelectSeq(cs, LAMBDA c : c.op = "Synopsis")

\* the first blank line of the stream after line p, Len(fin) + 1 if none
FirstBlankAfter(p) ==
  IF \E k \in (p + 1)..Len(fin) : RStrip(fin[k]) = << >>
  THEN CHOOSE k \in (p + 1)..Len(fin) :
         /\ RStrip(fin[k]) = << >>
         /\ \A j \in (p + 1)..(k - 1) : RStrip(fin[j]) # << >>
  ELSE Len(fin) + 1

\* the first line of the stream after line p that is not blank, 0 if none
FirstTextAfter(p) ==
  IF \E k \in (p + 1)..Len(fin) : RStrip(fin[k]) # << >>
  THEN CHOOSE k \in (p + 1)..Len(fin) :
         /\ RStrip(fin[k]) # << >>
         /\ \A j \in (p + 1)..(k - 1) : RStrip(fin[j]) = << >>
  ELSE 0

\* the text of the synopsis line l: without its trailing '::'
SynopsisText(l) ==
  IF IsOldStyle(RStrip(l)) THEN Slice(RStrip(l), 0, Len(RStrip(l)) - 2)
  ELSE RStrip(l)

(* C21  After a heading whose text is NAME or SYNOPSIS the converter       *)
(* consumes the following raw lines up to the next blank line and emits    *)
(* one Synopsis for every non-empty line so consumed; the chain resumes    *)
(* with the line after that blank line.                                    *)
SynopsisUntilBlank ==
  [][(LineStep /\ IsSynopsisHeading(StepLine)) =>
       /\ pos' = Min(FirstBlankAfter(pos + 1), Len(fin))
       /\ Len(SynopsisCalls(NewCalls)) = FirstBlankAfter(pos + 1) - pos - 2]_vars

(* C21, amended  After a heading whose text is NAME or SYNOPSIS the        *)
(* converter skips the blank lines that follow and consumes the first line *)
(* that is not blank: it emits one Synopsis, for that line (without its    *)
(* trailing '::' if it has one, and then under SYNOPSIS two more raw lines *)
(* are read and dropped); the chain resumes with the next line, blank or   *)
(* not.  At the end of the stream no Synopsis is emitted.                  *)
SynopsisFirstLine ==
  [][(LineStep /\ IsSynopsisHeading(StepLine)) =>
       LET q == FirstTextAfter(pos + 1)
           syn == SynopsisCalls(NewCalls)
       IN  IF q = 0 THEN pos' = Len(fin) /\ syn = << >>
           ELSE /\ syn = <<SynopsisCall(Rendered(SynopsisText(fin[q])))>>
                /\ NewCalls[Len(NewCalls)] = syn[1]
                /\ buf' = << >>
                /\ pos' = IF IsOldStyle(RStrip(fin[q]))
                             /\ (\E n \in 1..Len(StepLine) :
                                   HeadingOf(StepLine, n, SYNOPSIS))
                          THEN Min(q + 2, Len(fin))
                          ELSE q]_vars

\* the blank line after NAME was skipped and of two text lines the first
\* became the synopsis
SynopsisFirstLineWitness ==
  /\ pc = "run"
  /\ fin = <<HName, Blank, Text, Text2>>
  /\ pos = 3
  /\ calls = <<HeadingCall(1, NAME), SynopsisCall(Text)>>

----------------------------------------------------------------------------
(* The end of a list.                                                      *)

\* a step in which an un-indented line met at depth > 0 reached the fallback
EndOfListStep ==
  /\ LineStep
  /\ last' = "Remainder"
  /\ pc' = "run"
  /\ depth > 0
  /\ StepLine[1] # " "

\* what such a step does when it leaves the counter of the current list at c
EndOfListWith(c) ==
  IF c = 0
  THEN /\ depth' = 0
       /\ NewCalls = (IF buf # << >> THEN FlushOf(buf) ELSE << >>)
                       \o <<ListCall(0)>>
       /\ buf' = <<" ">> \o StepLine
  ELSE /\ depth' = depth
       /\ Elem(lists', depth).ignore_line = c
       /\ NewCalls = << >>
       /\ buf' = buf \o <<" ">> \o StepLine

(* C22  Each un-indented line seen at depth > 0 that no earlier classifier *)
(* consumed decrements the counter of the current list, and once the       *)
(* counter reaches zero the converter flushes the pending text, emits      *)
(* List(0) and resets the depth to 0, so that enough un-indented text      *)
(* lines always end a list; the text of the line is appended afterwards by *)
(* the fallback in every case.                                             *)
EndOfListCountsDown ==
  [][EndOfListStep =>
       EndOfListWith(IF Elem(lists, depth).ignore_line > 0
                     THEN Elem(lists, depth).ignore_line - 1
                     ELSE 0)]_vars

(* C22, amended  Such a line decrements the counter only while it is       *)
(* greater than 1, and the list is ended (flush, List(0), depth 0) only    *)
(* when the counter is 0: a bullet item is ended by the first un-indented  *)
(* text line, while text lines alone leave the counter of a definition     *)
(* item at 1 and never end its list; the text of the line is appended by   *)
(* the fallback in every case.                                             *)
EndOfListAtZero ==
  [][EndOfListStep =>
       EndOfListWith(IF Elem(lists, depth).ignore_line > 1
                     THEN Elem(lists, depth).ignore_line - 1
                     ELSE Elem(lists, depth).ignore_line)]_vars

\* three text lines after a definition item: the list is still open
EndOfListAtZeroWitness ==
  /\ pc = "run"
  /\ fin = <<DTerm1, Text, Text, Text>>
  /\ pos = 4
  /\ depth = 1
  /\ Elem(lists, 1).ignore_line = 1
  /\ calls = <<ListItemCall(1, <<"a">>)>>
  /\ buf = <<" ">> \o Text \o <<" ">> \o Text \o <<" ">> \o Text

----------------------------------------------------------------------------
(* Blank lines in a definition list.                                       *)

\* a step that hands a blank line to the classifiers
BlankStep == LineStep /\ StepLine = << >> /\ pc' = "run"

\* l is an un-indented line with a run of two or more colons
IsDefinitionItem(l) == l # << >> /\ l[1] # " " /\ Find(l, <<":", ":">>, 0) >= 0

\* the Line calls among cs
LineCalls(cs) == SelectSeq(cs, LAMBDA c : c = LineCall)

(* C23  A definition-list item sets the counter of its list entry to 2 so  *)
(* that the list swallows two blank lines: neither of two consecutive      *)
(* blank lines directly after a definition item produces a Line call,      *)
(* while at depth 0, or once the counter is 0, every blank line produces   *)
(* exactly one Line call.                                                  *)
TwoBlanksSwallowed ==
  [][BlankStep =>
       /\ (last = "DefinitionList" /\ IsDefinitionItem(fin[pos])) =>
            LineCalls(NewCalls) = << >>
       /\ (last = "BlankLine" /\ pos >= 2 /\ fin[pos] = << >>
           /\ IsDefinitionItem(fin[pos - 1])) =>
            LineCalls(NewCalls) = << >>
       /\ (depth >= 0 /\ ~Elem(lists, depth).bullet
           /\ (depth = 0 \/ Elem(lists, depth).ignore_line = 0)) =>
            LineCalls(NewCalls) = <<LineCall>>]_vars

----------------------------------------------------------------------------
(* Definition list items.                                                  *)

DTermC     == <<"c", ":", ":">>
DTermWide  == <<"x", " ", "y", ":", ":", ":", " ", " ", "z", ":", ":", "w">>

MaxDefinitionLines == 4

DefinitionLines == {Blank, Bul1, Bul2, DTerm1, DTerm2, DTermC, DTermBody,
                    DTermWide, Text}

InitDefinition == InitWith(DefinitionLines, MaxDefinitionLines, {<< >>}, 1)

SpecDefinition == InitDefinition /\ [][Next]_vars

\* the position (from 1) of the first run of two or more colons of l
FirstColons(l) ==
  CHOOSE j \in 1..(Len(l) - 1) :
    /\ l[j] = ":" /\ l[j + 1] = ":"
    /\ \A i \in 1..(j - 1) : ~(l[i] = ":" /\ l[i + 1] = ":")

\* the length of the run of colons of l that begins at j
ColonRun(l, j) ==
  CHOOSE k \in 2..Len(l) :
    /\ \A i \in j..(j + k - 1) : i <= Len(l) /\ l[i] = ":"
    /\ (j + k > Len(l) \/ l[j + k] # ":")

\* s without its leading spaces
LStrip(s) == From(s, SkipSpaces(s, 0))

\* the depth a definition item of this level goes to from depth d: one
\* deeper, or down to the nearest entry whose level is at most this level
\* (-Len(lists) - 1 when there is none)
DefinitionDepth(d, level) ==
  IF Elem(lists, d).bullet \/ Elem(lists, d).level < level THEN d + 1
  ELSE IF \E x \in (-Len(lists))..d : Elem(lists, x).level <= level
  THEN CHOOSE x \in (-Len(lists))..d :
         /\ Elem(lists, x).level <= level
         /\ \A y \in (x + 1)..d : Elem(lists, y).level > level
  ELSE -Len(lists) - 1

\* a step that hands an un-indented line with '::' to the classifiers
DefinitionStep ==
  /\ LineStep
  /\ IsDefinitionItem(StepLine)
  /\ InRange(lists, depth)

----------------------------------------------------------------------------
(* The '+' line.                                                           *)

MaxParagraphLines == 4

ParagraphLines == {Blank, Plus, Bul1, DTerm1, Ex1, Ex2, BulIndent, Text}

InitParagraph == InitWith(ParagraphLines, MaxParagraphLines, {<< >>}, 1)

SpecParagraph == InitParagraph /\ [][Next]_vars

\* a step that hands, inside a list, an indented line that is no bullet item
\* to the classifiers
IndentedInListStep ==
  /\ LineStep
  /\ depth > 0
  /\ StepLine # << >>
  /\ StepLine[1] = " "
  /\ BulletMarkers(LStrip(StepLine)) = 0

(* C25  A line that is exactly '+' flushes the pending text, emits exactly *)
(* one Line(), leaves _depth and the list stack unchanged, and arms the    *)
(* paragraph latch for exactly one line: an indented line right after it   *)
(* inside a list is emitted as an Example line, while the same line inside *)
(* a list with no '+' or example line before it is added to the fill text. *)
ParagraphLatch ==
  [][/\ (LineStep /\ StepLine = Plus) =>
          /\ NewCalls = (IF buf # << >> THEN FlushOf(buf) ELSE << >>)
                          \o <<LineCall>>
          /\ buf' = << >>
          /\ depth' = depth
          /\ lists' = lists
          /\ last' = "Paragraph"
     /\ (IndentedInListStep /\ last = "Paragraph") =>
          /\ NewCalls = <<ExampleCall(Rendered(LStrip(StepLine)))>>
          /\ buf' = << >>
          /\ depth' = depth
     /\ (IndentedInListStep /\ last \notin {"Paragraph", "Example"}) =>
          /\ NewCalls = << >>
          /\ buf' = buf \o <<" ">> \o LStrip(StepLine)
          /\ depth' = depth]_vars

\* inside a bullet list the indented line after '+' became an Example
ParagraphLatchWitness ==
  /\ pc = "run"
  /\ fin = <<Bul1, Plus, Ex1>>
  /\ pos = 3
  /\ depth = 1
  /\ calls = <<ListCall(1), FillCall(<<"a">>), LineCall, ExampleCall(<<"f">>)>>

----------------------------------------------------------------------------
(* Example lines.                                                          *)

Ex3 == <<" ", " ", " ", "g">>

MaxExampleLines == 4

ExampleLines == {Blank, Plus, Ex1, Ex2, Ex3, BulIndent, Bul1, Text}

InitExample == InitWith(ExampleLines, MaxExampleLines, {<< >>}, 1)

SpecExample == InitExample /\ [][Next]_vars

\* the number of leading spaces of l
Indent(l) == SkipSpaces(l, 0)

\* l is an indented line that is no bullet item
IsExampleForm(l) ==
  RStrip(l) # << >> /\ l[1] = " " /\ BulletMarkers(LStrip(l)) = 0

\* the first line of the block of consecutive lines of that form that line p
\* belongs to
BlockStart(p) ==
  CHOOSE s \in 1..p :
    /\ \A k \in s..p : IsExampleForm(fin[k])
    /\ s = 1 \/ ~IsExampleForm(fin[s - 1])

\* the least indentation of the block up to line p
Margin(p) ==
  CHOOSE n \in {Indent(fin[k]) : k \in BlockStart(p)..p} :
    \A k \in BlockStart(p)..p : n <= Indent(fin[k])

\* a step in which the line is emitted as an example line
ExampleStep == LineStep /\ last' = "Example" /\ pc' = "run"

(* C26  Within a run of consecutive example lines the margin used for each *)
(* line is the least number of leading spaces of the lines of the run seen *)
(* so far, and each Example call receives the line past that margin; the   *)
(* margin is never larger than the indentation of the line, so no          *)
(* character of the line that is not a space is dropped.                   *)
ExampleMargin ==
  [][ExampleStep =>
       /\ IsExampleForm(StepLine)
       /\ example' = Margin(pos + 1)
       /\ next_example' = example'
       /\ example' <= Indent(StepLine)
       /\ NewCalls = (IF buf # << >> THEN FlushOf(buf) ELSE << >>)
                       \o <<ExampleCall(Rendered(From(StepLine, example')))>>
       /\ LStrip(NewCalls[Len(NewCalls)].text) = LStrip(StepLine)]_vars

\* a run whose margin went from 2 to 1 and stayed there for a line of 3
ExampleMarginWitness ==
  /\ pc = "run"
  /\ fin = <<Ex2, Ex1, Ex3>>
  /\ pos = 3
  /\ example = 1
  /\ calls = <<ExampleCall(<<"e">>), ExampleCall(<<"f">>),
               ExampleCall(<<" ", " ", "g">>)>>

(* C27  One-line latch: when the chain starts on a line, _example is       *)
(* non-zero only if the line the chain processed just before was emitted   *)
(* as an example line, and _paragraph is true only if that line was '+';   *)
(* so a blank line, or any other line that is no example line, resets the  *)
(* example state and a later indented line starts a new block whose margin *)
(* is computed afresh.                                                     *)
OneLineLatch ==
  [][/\ pc' = "run" =>
          /\ next_example' # 0 <=> last' = "Example"
          /\ next_paragraph' <=> last' = "Paragraph"
     /\ LineStep =>
          /\ Latch(Self).example # 0 => last = "Example"
          /\ Latch(Self).paragraph => last = "Paragraph"
     /\ (ExampleStep /\ last # "Example") =>
          /\ example' = Indent(StepLine)
          /\ NewCalls[Len(NewCalls)] = ExampleCall(Rendered(LStrip(StepLine)))]_vars

\* a blank line between a line indented by 1 and a line indented by 3: the
\* second block has the margin 3
OneLineLatchWitness ==
  /\ pc = "run"
  /\ fin = <<Ex1, Blank, Ex3>>
  /\ pos = 3
  /\ example = 3
  /\ calls = <<ExampleCall(<<"f">>), LineCall, ExampleCall(<<"g">>)>>

----------------------------------------------------------------------------
(* Hyperlink anchors.                                                      *)

Schemes == {<<"f", "t", "p">>, <<"h", "t", "t", "p">>,
            <<"h", "t", "t", "p", "s">>, <<"l", "i", "n", "k">>,
            <<"m", "a", "i", "l", "t", "o">>}

\* what may stand before the ':' of a line: the schemes and another word
AnchorWords == Schemes \cup {<<"f", "i", "l", "e">>}

AnchorPres == {<< >>, <<"a", " ">>, <<"x">>}

MaxTailLen == 4

\* a target and a text with brackets inside
NestedTail == <<"x", "[", "x", "[", "x", "]", "x", "]", "x">>

AnchorTails == SeqsUpTo({"x", "[", "]", " "}, MaxTailLen) \cup {NestedTail}

AnchorPosts == {<< >>, <<" ", "f", "t", "p", ":", "y", "[", "z", "]">>}

AnchorLines ==
  {pre \o word \o <<":">> \o tail \o post :
     pre \in AnchorPres, word \in AnchorWords, tail \in AnchorTails,
     post \in AnchorPosts}

\* a document of at most one line with an anchor, or what looks like one
InitAnchor == InitWith(AnchorLines, 1, {<< >>}, 1)

SpecAnchor == InitAnchor /\ [][Next]_vars

\* the scheme that ends right before position p (from 1) of s, << >> if none
SchemeBefore(s, p) ==
  IF \E w \in Schemes : p > Len(w) /\ SubSeq(s, p - Len(w), p - 1) = w
  THEN CHOOSE w \in Schemes : p > Len(w) /\ SubSeq(s, p - Len(w), p - 1) = w
  ELSE << >>

\* the positions of the ':' of s that follow a scheme
Triggers(s) ==
  {p \in 1..Len(s) : s[p] = ":" /\ SchemeBefore(s, p) # << >>}

\* the Link calls among cs
LinkCalls(cs) == SelectSeq(cs, LAMBDA c : c.op = "Link")

(* C28  The bracketed text of an anchor is optional: a trigger (ftp:,      *)
(* http:, https:, mailto: or link:) followed by a target with no '[...]'   *)
(* still produces a Link, whose text is the target itself.                 *)
BareAnchorLinks ==
  (/\ pc = "done"
   /\ Len(fin) = 1
   /\ \E p \in Triggers(fin[1]) : p < Len(fin[1]) /\ fin[1][p + 1] # " "
   /\ \A p \in 1..Len(fin[1]) : fin[1][p] \notin {"[", "]"})
  => \E k \in 1..Len(calls) :
       calls[k].op = "Link" /\ calls[k].text = calls[k].target

\* the number of '[' less the number of ']' of s from position a to b
Nesting(s, a, b) ==
  Cardinality({k \in a..b : s[k] = "["}) - Cardinality({k \in a..b : s[k] = "]"})

\* o is the first bracket of s from position p on, and it is a '['
OpensAt(s, p, o) ==
  /\ o \in p..Len(s)
  /\ s[o] = "["
  /\ \A k \in p..(o - 1) : s[k] \notin {"[", "]"}

\* j is the ']' that matches the '[' at o
ClosesAt(s, o, j) ==
  /\ j \in (o + 1)..Len(s)
  /\ s[j] = "]"
  /\ Nesting(s, o, j) = 0
  /\ \A k \in o..(j - 1) : Nesting(s, o, k) > 0

\* the ':' at p is followed by a target and a bracketed text that is closed
HasClose(s, p) ==
  \E o \in p..Len(s) : OpensAt(s, p, o) /\ \E j \in (o + 1)..Len(s) : ClosesAt(s, o, j)

\* the anchor whose ':' is at p: where it begins and ends, target and text
AnchorAt(s, p) ==
  LET o == CHOOSE o \in p..Len(s) : OpensAt(s, p, o)
      j == CHOOSE j \in (o + 1)..Len(s) : ClosesAt(s, o, j)
      w == SchemeBefore(s, p)
  IN  [from |-> p - Len(w),
       to |-> j,
       target |-> IF w = <<"l", "i", "n", "k">> THEN SubSeq(s, p + 1, o - 1)
                  ELSE SubSeq(s, p - Len(w), o - 1),
       text |-> SubSeq(s, o + 1, j - 1)]

RECURSIVE ExpectedAnchors(_)
\* what the anchors of s come to: the Link calls, and s with every anchor
\* replaced by what Link returned
ExpectedAnchors(s) ==
  LET cand == {p \in Triggers(s) : HasClose(s, p)}
  IN  IF cand = {} THEN [out |-> s, calls |-> << >>]
      ELSE LET p == CHOOSE p \in cand : \A q \in cand : p <= q
               a == AnchorAt(s, p)
               rest == ExpectedAnchors(SubSeq(s, a.to + 1, Len(s)))
           IN  [out |-> SubSeq(s, 1, a.from - 1) \o <<LinkMark>> \o rest.out,
                calls |-> <<LinkCall(a.target, a.text)>> \o rest.calls]

----------------------------------------------------------------------------
(* Doubled emphasis characters.                                            *)

RECURSIVE RunEnd(_, _)
\* the index just past the run of the character at index i of b
RunEnd(b, i) ==
  IF i + 1 < Len(b) /\ At(b, i + 1) = At(b, i) THEN RunEnd(b, i + 1) ELSE i + 1

\* the indexes where a run of one emphasis character starts in b
RunStarts(b) ==
  {i \in 0..(Len(b) - 1) :
     At(b, i) \in EmphasisMarkers /\ (i = 0 \/ At(b, i - 1) # At(b, i))}

\* the indexes of b that hold a doubled emphasis character: read from the
\* left, a run of n equal characters holds n \div 2 pairs
InPair(b) ==
  UNION {s..(s + 2 * ((RunEnd(b, s) - s) \div 2) - 1) : s \in RunStarts(b)}

\* the step that flushes the pending text at the end of the input
EndFlush == pc = "run" /\ pos >= Len(fin) /\ buf # << >> /\ notes = << >>

\* the text of the Fill call that comes right before Finish in cs
FillText(cs) == IF Len(cs) >= 2 THEN cs[Len(cs) - 1].text ELSE << >>

\* the Font calls in cs
FontCalls(cs) == {k \in 1..Len(cs) : cs[k].op = "Font"}

(* C30 as stated  When the pending text holds a doubled emphasis character *)
(* the flush makes a Font call for it and the filled text does not hold    *)
(* the two characters as they were written.                                *)
DoubledEscalates ==
  [][(EndFlush /\ InPair(buf) # {}) =>
       /\ FontCalls(NewCalls) # {}
       /\ \A k \in InPair(buf) :
            k >= Len(FillText(NewCalls)) \/ At(FillText(NewCalls), k) # At(buf, k)]_vars

(* C30  A doubled emphasis character is literal: when the pending text is  *)
(* flushed at the end of the input, both characters of every pair of equal *)
(* emphasis characters are in the filled text as written, and Font is      *)
(* called once for each character the text no longer holds, never for a    *)
(* character of a pair.                                                    *)
DoubledLiteral ==
  [][EndFlush =>
       /\ Len(NewCalls) >= 2
       /\ NewCalls[Len(NewCalls) - 1].op = "Fill"
       /\ Len(FillText(NewCalls)) = Len(buf)
       /\ \A k \in InPair(buf) : At(FillText(NewCalls), k) = At(buf, k)
       /\ Cardinality(FontCalls(NewCalls))
            = Cardinality({k \in 0..(Len(buf) - 1) :
                             At(FillText(NewCalls), k) # At(buf, k)})]_vars

\* "**a*" was rendered: the pair is literal, the single '*' is one Font(bold)
DoubledLiteralWitness ==
  /\ pc = "done"
  /\ fin = <<<<"*", "*", "a", "*">>>>
  /\ calls = <<FontCall("bold"),
               FillCall(<<" ", "*", "*", "a", FontMark("bold")>>),
               FinishCall>>

----------------------------------------------------------------------------
(* _Attributes called directly.                                            *)

\* lines that hold an anchor among emphasis characters
AnchorSamples ==
  {<<"*", "l", "i", "n", "k", ":", "x", "[", "_", "a", "_", "]", "*">>,
   <<"f", "t", "p", ":", "x", "[", "a", "]", " ", "_", "b", "_">>,
   <<"a", ":", "*", "b", "*">>}

\* one line of emphasis characters or anchors, then up to MaxAttributesCalls
\* calls of _Attributes
InitAttributes == InitWith(EmphasisLines \cup AnchorSamples, 1, {<< >>}, 1)

SpecAttributes == InitAttributes /\ [][NextAttributes]_vars

\* a step that is a direct call of _Attributes
AttributesStep == pc \in {"run", "attr"} /\ Len(rets') = Len(rets) + 1

\* what Font and Link return
InlineMarks == {FontMark(EMPHASIS(c)) : c \in EmphasisMarkers} \cup {LinkMark}

\* the positions of s that hold what Font or Link returned
MarksIn(s) == {k \in 1..Len(s) : s[k] \in InlineMarks}

\* the positions of b the scan can take for markup
MarkupIn(b) == {k \in 1..Len(b) : b[k] \in EmphasisMarkers \cup {":"}}

(* C31  A call of _Attributes leaves the buffer empty; on an empty buffer,  *)
(* so on an immediately repeated call, it returns the empty string and     *)
(* makes no renderer call; and it calls Font or Link once for each inline  *)
(* marker in the string it returns, never more often than the buffer has   *)
(* markup characters: a returned marker is not scanned again.              *)
AttributesDrains ==
  [][AttributesStep =>
       /\ buf' = << >>
       /\ (buf = << >> \/ pc = "attr") =>
            rets'[Len(rets')] = << >> /\ calls' = calls
       /\ Len(NewCalls) = Cardinality(MarksIn(rets'[Len(rets')]))
       /\ Len(NewCalls) <= Cardinality(MarkupIn(buf))
       /\ \A k \in 1..Len(NewCalls) : NewCalls[k].op \in {"Font", "Link"}]_vars

\* _Attributes was called twice after the line '*link:x[_a_]*'
AttributesDrainsWitness ==
  /\ pc = "attr"
  /\ fin = <<<<"*", "l", "i", "n", "k", ":", "x", "[", "_", "a", "_", "]", "*">>>>
  /\ rets = <<<<" ", FontMark("bold"), LinkMark, FontMark("bold")>>, << >>>>
  /\ calls = <<FontCall("bold"), LinkCall(<<"x">>, <<"_", "a", "_">>),
               FontCall("bold")>>
  /\ buf = << >>

----------------------------------------------------------------------------
(* Bullets nested by indentation.                                          *)

\* a step that hands a bullet item with one marker, indented by one space,
\* to the classifiers right after an un-indented item with one marker that
\* is at depth 1
IndentedBulletStep ==
  /\ LineStep
  /\ pos >= 1
  /\ BulletMarkers(RStrip(fin[pos])) = 1
  /\ last = "BulletList"
  /\ depth = 1
  /\ Indent(StepLine) = 1
  /\ BulletMarkers(From(StepLine, 1)) = 1

(* C32  After an un-indented '- level-1' item, a bullet item whose         *)
(* indicator is indented by one space is a nested item: the step emits     *)
(* List(2) and leaves the depth at 2.                                      *)
IndentedBulletNests ==
  [][IndentedBulletStep =>
       /\ depth' = 2
       /\ \E k \in 1..Len(NewCalls) : NewCalls[k] = ListCall(2)]_vars

----------------------------------------------------------------------------
(* Blank lines in a table block.                                           *)

(* C33  Once a table block has started, the first blank line ends it: when *)
(* a blank line comes before the second '|====' line, the step that reads  *)
(* the table header reads up to that blank line and no further, and ends   *)
(* with Table(None), so the lines after the blank line go to the           *)
(* classifiers.                                                            *)
BlankLineEndsTable ==
  [][(/\ LineStep
      /\ IsTableHeader(StepLine)
      /\ FirstBlankAfter(pos + 1) < TableEnd(fin, pos + 1)) =>
       /\ pos' = FirstBlankAfter(pos + 1)
       /\ NewCalls[Len(NewCalls)] = TableNoneCall]_vars

----------------------------------------------------------------------------
(* The List call of a bullet item.                                         *)

(* C34  A step that consumes a line as a bullet list item ends with a      *)
(* List(d) call with d >= 1 and leaves the depth at d: List(0) is not      *)
(* what a bullet item emits.                                               *)
BulletItemDepth ==
  [][(LineStep /\ last' = "BulletList") =>
       /\ depth' >= 1
       /\ NewCalls # << >>
       /\ NewCalls[Len(NewCalls)] = ListCall(depth')]_vars

----------------------------------------------------------------------------
(* A sleep_ms that is a finite iterable.                                   *)

MaxSleeps == 2

\* RetryOnResult with a sleep_ms that yields up to MaxSleeps waits, with
\* and without the other limits
InitSleepIterable ==
  InitRetryWith([max_retrials : {None, 1}, max_wait_ms : {None, 2},
                 exponential_sleep_multiplier : {0, 2}, jitter_ms : {0, 2},
                 status_update_func : BOOLEAN, wait_ceiling_ms : {0}],
                [entry : {"RetryOnResult"}, retry_given : {TRUE},
                 retry_on : {{"bad", "worse"}},
                 sleep_ms : {Iterable(w) : w \in SeqsUpTo({0, 1}, MaxSleeps)}])

SpecSleepIterable == InitSleepIterable /\ [][NextRetry]_vars

----------------------------------------------------------------------------
(* GetOnGCE called by one thread.                                          *)

\* one thread calls GetOnGCE up to MaxGceCalls times while time passes
InitGce == DocIdle /\ RetryIdle /\ CsvIdle /\ InitGceWith({"t1"}, MaxGceCalls)

SpecGce == InitGce /\ [][NextGce]_vars

\* thread t contacts the metadata server in this step
ContactStep(t) == thr'[t].contacts = thr[t].contacts + 1

\* GetOnGCE returns to thread t in this step
ReturnStep(t) == thr[t].pc = "33" /\ thr'[t].pc = "idle"

(* C36  GetOnGCE contacts the metadata server only when the cache file     *)
(* does not exist, or when check_age is true and the mtime in memory is    *)
(* more than _GCE_CACHE_MAX_AGE in the past; when it returns, the mtime in *)
(* memory is that of the file and the value returned is whether the file   *)
(* holds 'True'; and a call that returns no later than _GCE_CACHE_MAX_AGE  *)
(* after the last write of the file before it has not contacted the        *)
(* server.                                                                 *)
GceCacheRefresh ==
  [][\A t \in DOMAIN thr :
       /\ ContactStep(t) =>
            \/ ~cache_file.exists
            \/ thr[t].check_age /\ mtime # None
                 /\ now - mtime > _GCE_CACHE_MAX_AGE
       /\ ReturnStep(t) =>
            /\ thr'[t].ret = Str(cache_file.content = "True")
            /\ mtime = cache_file.mtime
            /\ (thr[t].fresh # None /\ now - thr[t].fresh <= _GCE_CACHE_MAX_AGE) =>
                 thr[t].contacts = 0]_vars

\* a call with check_age, _GCE_CACHE_MAX_AGE after a refresh that an
\* earlier call made, returned True without a contact
GceCacheRefreshWitness ==
  /\ DOMAIN thr = {"t1"}
  /\ thr["t1"].pc = "idle"
  /\ thr["t1"].calls >= 2
  /\ thr["t1"].check_age
  /\ thr["t1"].fresh # None
  /\ now - thr["t1"].fresh = _GCE_CACHE_MAX_AGE
  /\ thr["t1"].contacts = 0
  /\ thr["t1"].ret = "True"

----------------------------------------------------------------------------
(* GetOnGCE called by several threads.                                     *)

\* the threads of the process
Threads == {"t1", "t2"}

\* each thread calls GetOnGCE up to MaxThreadCalls times, in any
\* interleaving
InitGceThreads == DocIdle /\ RetryIdle /\ CsvIdle /\ InitGceWith(Threads, MaxThreadCalls)

SpecGceThreads == InitGceThreads /\ [][NextGce]_vars

\* the lines between which a thread has the cache file open for writing
\* (50, 51) or stats and reads it (41, 42)
FileLines == {"41", "42", "50", "51"}

\* the lines at which a thread asks for file_lock
LockLines == {"40", "49"}

\* the threads that are in a call of GetOnGCE
InCall == {t \in DOMAIN thr : thr[t].pc # "idle"}

(* C37  In any interleaving of GetOnGCE calls a thread writes the cache    *)
(* file, or stats and reads it, only while it holds file_lock, so that no  *)
(* two threads do so at once; a thread that asks for the lock does not     *)
(* hold it, and whenever threads are in a call one of them can take a      *)
(* step; no call ends in an exception and every call returns True or       *)
(* False, not None.                                                        *)
GceLockDiscipline ==
  /\ \A t \in DOMAIN thr :
       /\ thr[t].pc \in FileLines => file_lock = t
       /\ thr[t].pc \in LockLines => file_lock # t
       /\ thr[t].pc \notin {"TypeError", "OSError"}
       /\ thr[t].pc = "33" => connected \in {"True", "False"}
       /\ (thr[t].pc = "idle" /\ thr[t].calls > 0) => thr[t].ret \in {"True", "False"}
  /\ file_lock # NoThread => thr[file_lock].pc \in FileLines
  /\ InCall # {} =>
       \E t \in InCall : thr[t].pc \in LockLines => file_lock = NoThread

\* one thread has the file open for writing while the other waits for the
\* lock to stat and read it
GceLockDisciplineWitness ==
  /\ DOMAIN thr = Threads
  /\ thr["t1"].pc = "51"
  /\ thr["t2"].pc = "40"
  /\ file_lock = "t1"
  /\ cache_file.content = ""

----------------------------------------------------------------------------
(* The heading record of the CSV printers.                                 *)

\* a CsvPrinter or a ValuePrinter to which records are added
InitCsv == DocIdle /\ RetryIdle /\ GceIdle /\ InitCsvWith({"csv", "value"})

SpecCsv == InitCsv /\ [][NextCsv]_vars

\* the positions of the heading writes in what was written
HeadingWrites == {k \in 1..Len(csv_out) : csv_out[k].by = "heading"}

(* C38  The heading record is written at most once, as the first thing     *)
(* written and followed by a data record, and never with the noheading     *)
(* attribute; a heading line is written only if AddHeading or the format   *)
(* labels gave a heading, so it is never an empty line; and a ValuePrinter *)
(* writes no heading.                                                      *)
CsvHeadingOnce ==
  /\ Cardinality(HeadingWrites) <= 1
  /\ \A k \in HeadingWrites :
       /\ k = 1
       /\ Len(csv_out) >= 2
       /\ csv_out[k].text # <<linesep>>
  /\ printer.noheading => HeadingWrites = {}
  /\ printer.kind = "value" => HeadingWrites = {}
  /\ csv_pc # "TypeError"

====
